---- MODULE Spec2Model ----
(***************************************************************************)
(* A model of murchinroom/musicstore: the audiofilestore ingestion         *)
(* pipeline (AddTrack), its callers and the resources it touches (the      *)
(* filesystem of the store, the catalog database, the emotion service).    *)
(*                                                                         *)
(* Strings are sequences of one-character strings, so that the code's      *)
(* string operations (HasPrefix, TrimPrefix, ReplaceAll, Ext, Base) are    *)
(* computed as the code computes them.                                     *)
(***************************************************************************)
EXTENDS Integers, Sequences, FiniteSets, TLC

VARIABLES
    cfg,        \* the AudioFileStore fields that vary: EnableEmomusic, BaseUrl, FileDir
    fs,         \* directory entries: path -> inode number
    idata,      \* inode number -> file content
    catalog,    \* the tracks table: a set of Track records
    nextID,     \* the next primary key the database assigns
    pc,         \* per invocation: the position in AddTrack / its caller
    path,       \* per invocation: AddTrack's local `path`
    oldpath,    \* per invocation: AddTrack's local `oldpath`
    opts,       \* per invocation: the options passed to AddTrack
    track,      \* per invocation: AddTrack's local `track`
    ret,        \* per invocation: what AddTrack returned, (track, err)
    snap,       \* per invocation: the catalog and filesystem when AddTrack was entered
    placed,     \* per invocation: the destination this invocation hard-linked, or <<>>
    fault,      \* per invocation: the calls the environment failed: a subset of
                \* {"count", "link", "eexist", "analysis", "db", "remove"}
    countErr,   \* TRUE once a catalog count query has failed
    origin,     \* per Track key: the content of the source it was ingested from
    hist,       \* per invocation: the steps of the current ingestion with an effect
                \* outside the process, in the order they were taken
    calls,      \* number of ingestions started so far
    req,        \* per HTTP handler: the bound PostNewTrackRequest
    resp,       \* per HTTP handler: the status code answered, 0 before the answer
    ch,         \* enumMusicFiles' channel: the paths buffered in it
    chClosed,   \* whether the walker has closed the channel
    walk,       \* the walker goroutine: the entries WalkDir has still to visit
    walking,    \* whether a walker goroutine is running
    runs,       \* number of AddTracksFromDir runs started so far
    sent,       \* the paths the walker of the current run has sent, in order
    fed,        \* the paths the current run has passed to AddTrack, in order
    closes,     \* how many times the channel of the current run was closed
    bulkRet,    \* what the last AddTracksFromDir returned: "nil", "error", or
                \* "running" / "none" while there is no result
    start,      \* the catalog and filesystem when the current run began
    runFault,   \* the calls the environment failed during the current run
    analysis,   \* a call of the emomusic client: the function called, its
                \* position, the requests sent, the redirects followed, the
                \* statuses received, the response handed to it, its result
    derived,    \* a call of audioUrl: the path it was given and what it returned
    boot,       \* startServices: main's position, the listener goroutine, the
                \* database connection, the routes registered on the router
    query,      \* a GET /murecom request: its position, the bound request, the
                \* status answered, the tracks answered, whether the SQL ran
    linked      \* per invocation: the inode its os.Link gave a second name, or 0

httpVars == <<req, resp>>
bulkVars == <<ch, chClosed, walk, walking, runs, sent, fed, closes, bulkRet, start,
              runFault>>

auxVars == <<derived, boot, query>>
sideVars == <<auxVars, linked>>
storeVars == <<cfg, fs, idata, catalog, nextID, pc, path, oldpath, opts, track, ret,
               snap, placed, fault, countErr, origin, hist, calls, linked>>

vars == <<cfg, fs, idata, catalog, nextID, pc, path, oldpath, opts, track, ret,
          snap, placed, fault, countErr, origin, hist, calls, httpVars, bulkVars,
          analysis, sideVars>>

----------------------------------------------------------------------------
(* Bounds of the model.                                                    *)

\* ingestions started, when they run one at a time
MaxCalls == 3
\* requests started, when they overlap
MaxOverlapping == 2
\* runs of AddTracksFromDir
MaxRuns == 1
\* options passed to one call of AddTrack
MaxOptions == 2

----------------------------------------------------------------------------
(* Strings.                                                                *)

\* strings.HasPrefix
HasPrefix(s, prefix) ==
    /\ Len(prefix) <= Len(s)
    /\ SubSeq(s, 1, Len(prefix)) = prefix

\* strings.HasSuffix
HasSuffix(s, suffix) ==
    /\ Len(suffix) <= Len(s)
    /\ SubSeq(s, Len(s) - Len(suffix) + 1, Len(s)) = suffix

\* strings.TrimPrefix
TrimPrefix(s, prefix) ==
    IF HasPrefix(s, prefix) THEN SubSeq(s, Len(prefix) + 1, Len(s)) ELSE s

\* strings.TrimSuffix
TrimSuffix(s, suffix) ==
    IF HasSuffix(s, suffix) THEN SubSeq(s, 1, Len(s) - Len(suffix)) ELSE s

\* the largest index of character c in s, 0 when there is none
LastIndex(s, c) ==
    IF \E i \in 1..Len(s) : s[i] = c
    THEN CHOOSE i \in 1..Len(s) : s[i] = c /\ \A j \in (i + 1)..Len(s) : s[j] # c
    ELSE 0

\* filepath.Base of a clean path; Base("") is "."
Base(p) == IF p = <<>> THEN <<".">> ELSE SubSeq(p, LastIndex(p, "/") + 1, Len(p))

\* filepath.Ext: the suffix beginning at the final dot of the final element
Ext(p) ==
    CHOOSE e \in {IF i = 0 THEN <<>> ELSE SubSeq(b, i, Len(b)) :
                  <<b, i>> \in {<<Base(p), LastIndex(Base(p), ".")>>}} : TRUE

\* filepath.Join(dir, name) of a clean dir and a name without separators
Join(dir, name) == dir \o <<"/">> \o name

\* stringToSnake converts "a string with spaces" to "a_string_with_spaces".
stringToSnake(s) == [i \in 1..Len(s) |-> IF s[i] = " " THEN "_" ELSE s[i]]

\* the byte order of the characters used, for sorting names as os.ReadDir does
CharOrder == <<" ", "-", ".", "/", "2", "3", "4", ":", "M", "P", "_", "a", "b", "c",
               "d", "e", "f", "g", "h", "i", "k", "m", "n", "o", "p", "r", "s", "t",
               "u", "v", "w", "x", "y", "z">>

RankOf ==
    [c \in {CharOrder[i] : i \in 1..Len(CharOrder)} |->
        CHOOSE i \in 1..Len(CharOrder) : CharOrder[i] = c]

Rank(c) == RankOf[c]

\* s < t as Go compares strings
RECURSIVE Less(_, _)
Less(s, t) ==
    IF t = <<>> THEN FALSE
    ELSE IF s = <<>> THEN TRUE
    ELSE IF Head(s) = Head(t) THEN Less(Tail(s), Tail(t))
    ELSE Rank(Head(s)) < Rank(Head(t))

\* the strings of a set in increasing order
Sorted(S) ==
    CHOOSE r \in {[i \in 1..Cardinality(DOMAIN before) |->
                     CHOOSE x \in DOMAIN before : before[x] = i - 1] :
                  before \in {[x \in S |-> Cardinality({y \in S : Less(y, x)})]}} : TRUE

\* strings.ToLower, for the upper-case letters used
ToLower(s) ==
    CHOOSE r \in {[i \in 1..Len(t) |->
                     CASE t[i] = "M" -> "m" [] t[i] = "P" -> "p" [] OTHER -> t[i]] :
                  t \in {s}} : TRUE

----------------------------------------------------------------------------
(* The store: AudioFileStore{Name, FileDir, BaseUrl, EnableEmomusic}.      *)

Name == <<"m">>
FileDir == <<"/", "s">>

\* the two BaseUrl settings: one that url.Parse accepts, one that it rejects
\* ("missing protocol scheme")
GoodBaseUrl == <<"/", "/", "b">>
BadBaseUrl == <<":", "b">>

\* directories next to the store's root: one whose name starts with the
\* root's name, one unrelated
SiblingDir == <<"/", "s", "2">>
OutsideDir == <<"/", "e">>

Mp3 == <<".", "m", "p", "3">>

\* a.tmpDir(): filepath.Join(a.FileDir, ".tmp")
tmpDir == Join(FileDir, <<".", "t", "m", "p">>)

----------------------------------------------------------------------------
(* model.Track and model.Emotion.                                          *)

NoEmotion == [Valence |-> 0, Arousal |-> 0]

\* the Go zero value of model.Track
ZeroTrack ==
    [ID |-> 0, Name |-> <<>>, Artist |-> <<>>, Album |-> <<>>,
     CoverImageURL |-> <<>>, AudioFileURL |-> <<>>, Emotion |-> NoEmotion]

\* a nil *model.Track
Nil == [nil |-> TRUE]

----------------------------------------------------------------------------
(* File contents: the embedded tags and the remaining bytes. A file whose  *)
(* tags cannot be parsed has ok = FALSE.                                   *)

File(title, artist, album, body) ==
    [ok |-> TRUE, Title |-> title, Artist |-> artist, Album |-> album, body |-> body]

CorruptFile == [ok |-> FALSE, Title |-> <<>>, Artist |-> <<>>, Album |-> <<>>, body |-> 0]

\* the files on disk when the store is constructed: inode -> content
InitialData ==
    <<File(<<"x">>, <<"y">>, <<"z">>, 1),      \* tagged, outside the root
      File(<<"x">>, <<"y">>, <<"w">>, 2),      \* same (name, artist), other album
      File(<<>>, <<>>, <<>>, 3),               \* untagged, inside the root
      CorruptFile,
      File(<<"w">>, <<"w">>, <<"w">>, 5)>>     \* in the root, under its canonical name

\* the directory entries when the store is constructed: path -> inode
InitialFs ==
    (Join(OutsideDir, <<"a">> \o Mp3) :> 1) @@
    (Join(SiblingDir, <<"b">> \o Mp3) :> 2) @@
    (Join(FileDir, <<"c">> \o Mp3) :> 3) @@
    (Join(OutsideDir, <<"d">> \o Mp3) :> 4) @@
    (Join(FileDir, <<"w", "-", "w", "-", "w">> \o Mp3) :> 5)

\* a path at which there is no file
MissingPath == Join(OutsideDir, <<"e">> \o Mp3)

\* a library to import: the files of a store's root before its first bulk
\* import, inode -> content
LibraryData ==
    <<File(<<"x">>, <<"y">>, <<"z">>, 1),      \* a.mp3
      File(<<"x">>, <<"y">>, <<"w">>, 2),      \* b.MP3: the (name, artist) of a.mp3
      CorruptFile,                             \* d/e.wav: no readable tags
      File(<<>>, <<>>, <<>>, 4),               \* g.m4a: untagged
      CorruptFile,                             \* d/f.txt
      CorruptFile,                             \* k.mp3/m.txt, in a directory named k.mp3
      CorruptFile,                             \* n.txt
      File(<<"w">>, <<"w">>, <<"w">>, 8)>>     \* w-w-w.mp3: under its canonical name

\* the directory entries of the library: path -> inode
LibraryFs ==
    (Join(FileDir, <<"a">> \o Mp3) :> 1) @@
    (Join(FileDir, <<"b", ".", "M", "P", "3">>) :> 2) @@
    (Join(Join(FileDir, <<"d">>), <<"e", ".", "w", "a", "v">>) :> 3) @@
    (Join(FileDir, <<"g", ".", "m", "4", "a">>) :> 4) @@
    (Join(Join(FileDir, <<"d">>), <<"f", ".", "t", "x", "t">>) :> 5) @@
    (Join(Join(FileDir, <<"k">> \o Mp3), <<"m", ".", "t", "x", "t">>) :> 6) @@
    (Join(FileDir, <<"n", ".", "t", "x", "t">>) :> 7) @@
    (Join(FileDir, <<"w", "-", "w", "-", "w">> \o Mp3) :> 8)

\* the roots a store may be configured with: the library, the empty string, a
\* path at which there is nothing, a regular file
Roots ==
    {FileDir, <<>>, <<"/", "n">>, Join(FileDir, <<"n", ".", "t", "x", "t">>)}

----------------------------------------------------------------------------
(* Filesystem calls.                                                       *)

Exists(f, p) == p \in DOMAIN f

\* a placement that replaces an existing destination, as a rename or a copy does
LinkOverwrite(f, old, new, envOK) ==
    IF envOK /\ Exists(f, old)
    THEN [ok |-> TRUE, fs |-> [q \in DOMAIN f \cup {new} |-> IF q = new THEN f[old] ELSE f[q]]]
    ELSE [ok |-> FALSE, fs |-> f]

\* os.Link(oldname, newname): link(2) fails when oldname is missing or newname
\* exists (EEXIST), and may fail for reasons of the environment (envOK)
Link(f, old, new, envOK) ==
    IF envOK /\ Exists(f, old) /\ ~Exists(f, new)
    THEN [ok |-> TRUE, fs |-> (new :> f[old]) @@ f]
    ELSE [ok |-> FALSE, fs |-> f]

\* os.Remove(name): unlink(2); the error is ignored by every caller
Remove(f, p) == [q \in DOMAIN f \ {p} |-> f[q]]

\* os.Create(name) and io.Copy into it: an existing file is truncated and
\* rewritten in place (the same inode), a missing one is created
WriteFile(f, d, p, content) ==
    IF Exists(f, p)
    THEN [fs |-> f, idata |-> [d EXCEPT ![f[p]] = content]]
    ELSE [fs |-> (p :> (Len(d) + 1)) @@ f, idata |-> Append(d, content)]

\* the entries of directory dir: the next path element of every file below it
\* (directories are the proper prefixes of the files' paths)
Entries(f, dir) ==
    {SubSeq(q, 1, (CHOOSE i \in (Len(dir) + 2)..(Len(q) + 1) :
                      /\ i = Len(q) + 1 \/ q[i] = "/"
                      /\ \A j \in (Len(dir) + 2)..(i - 1) : q[j] # "/") - 1) :
        q \in {x \in DOMAIN f : HasPrefix(x, dir \o <<"/">>)}}

\* d.IsDir() of an entry
IsDir(f, e) == ~Exists(f, e)

\* os.ReadDir(dir): the entries sorted by filename, each with its kind
ReadDir(f, dir) ==
    CHOOSE r \in {[i \in 1..Len(names) |-> [path |-> names[i], dir |-> IsDir(f, names[i])]] :
                  names \in {Sorted(Entries(f, dir))}} : TRUE

\* the bytes read through a path
Read(f, d, p) == d[f[p]]

----------------------------------------------------------------------------
(* Metadata extraction.                                                    *)

\* model.TrackFromAudioFile: os.Open, tag.ReadFrom, the filename fallback
TrackFromAudioFile(f, d, p) ==
    IF ~Exists(f, p) \/ ~Read(f, d, p).ok
    THEN [err |-> TRUE, track |-> Nil]
    ELSE LET m == Read(f, d, p)
         IN  [err |-> FALSE,
              track |-> [ZeroTrack EXCEPT
                  !.Name = IF m.Title = <<>>
                           THEN TrimSuffix(Base(p), Ext(p))
                           ELSE m.Title,
                  !.Artist = m.Artist,
                  !.Album = m.Album]]

\* an override that copies its four fields whether they are empty or not
OverrideTrackMetadataWhole(o, t) ==
    IF o = Nil THEN t
    ELSE [t EXCEPT !.Name = o.Name, !.Artist = o.Artist, !.Album = o.Album,
                   !.CoverImageURL = o.CoverImageURL]

\* OverrideTrackMetadata(o) applied to t; o is a Track or Nil
OverrideTrackMetadata(o, t) ==
    IF o = Nil THEN t
    ELSE [t EXCEPT
            !.Name = IF o.Name # <<>> THEN o.Name ELSE @,
            !.Artist = IF o.Artist # <<>> THEN o.Artist ELSE @,
            !.Album = IF o.Album # <<>> THEN o.Album ELSE @,
            !.CoverImageURL = IF o.CoverImageURL # <<>> THEN o.CoverImageURL ELSE @]

\* AddTrack's loop over options: each applied in order
RECURSIVE ApplyOptions(_, _)
ApplyOptions(os, t) ==
    IF os = <<>> THEN t
    ELSE ApplyOptions(Tail(os), OverrideTrackMetadata(Head(os), t))

----------------------------------------------------------------------------
(* File placement and URL derivation.                                      *)

\* hardLinkAudioFile's newpath
CanonicalPath(t, p) ==
    Join(FileDir, stringToSnake(t.Name) \o <<"-">> \o stringToSnake(t.Artist)
                  \o <<"-">> \o stringToSnake(t.Album) \o Ext(p))

\* a relative path that loses its leading separator
audioRelevantPathNoSlash(p) == TrimPrefix(p, FileDir \o <<"/">>)

\* audioRelevantPath = Abs(path) - Abs(FileDir)
audioRelevantPath(p) == TrimPrefix(p, FileDir)

audioStaticBasePath == <<"/">> \o Name \o <<"/", "a", "u", "d", "i", "o">>

\* url.Parse on the base url, as far as the two settings differ
UrlParses(u) == u # <<>> /\ u[1] # ":"

\* audioUrl = BaseUrl + audioStaticBasePath + audioRelevantPath
audioUrl(base, p) ==
    IF UrlParses(base)
    THEN [err |-> FALSE, url |-> base \o audioStaticBasePath \o audioRelevantPath(p)]
    ELSE [err |-> TRUE, url |-> <<>>]

\* the static route group.Static("/audio", a.FileDir): the file a URL is served from
ServedPath(base, u) ==
    IF HasPrefix(u, base \o audioStaticBasePath \o <<"/">>)
    THEN FileDir \o TrimPrefix(u, base \o audioStaticBasePath)
    ELSE <<>>

\* no call of audioUrl has been made
NoDerivation == [called |-> FALSE, path |-> <<>>, err |-> FALSE, url |-> <<>>]

\* the paths audioUrl is called with: files in the root, in its .tmp and in a
\* subdirectory of it, in the sibling directory and in the unrelated one
ProbePaths ==
    {Join(d, n) : d \in {FileDir, tmpDir, Join(FileDir, <<"d">>), SiblingDir, OutsideDir},
                  n \in {<<"a">> \o Mp3, <<"b">> \o Mp3, <<"c">> \o Mp3, <<"d">> \o Mp3,
                         Mp3, <<"e">>}}

\* a.audioUrl(path), called on the store as it is configured
CallAudioUrl ==
    /\ \E p \in ProbePaths :
          \E r \in {audioUrl(cfg.BaseUrl, p)} :
             derived' = [called |-> TRUE, path |-> p, err |-> r.err, url |-> r.url]
    /\ UNCHANGED <<storeVars, httpVars, bulkVars, analysis, boot, query>>

----------------------------------------------------------------------------
(* The catalog store.                                                      *)

\* a duplicate check that filters by album as well
TrackExistsSameAlbum(cat, t, countOK) ==
    IF ~countOK THEN FALSE
    ELSE Cardinality({r \in cat : r.Name = t.Name /\ r.Artist = t.Artist
                                  /\ r.Album = t.Album}) > 0

\* a check that reports a track as present when the count query fails
TrackExistsFailClosed(cat, t, countOK) ==
    IF ~countOK THEN TRUE
    ELSE Cardinality({r \in cat : r.Name = t.Name /\ r.Artist = t.Artist}) > 0

\* metadata.TrackExists: Count filtered by name and artist; a failed count
\* is logged and reported as "does not exist"
TrackExists(cat, t, countOK) ==
    IF ~countOK THEN FALSE
    ELSE Cardinality({r \in cat : r.Name = t.Name /\ r.Artist = t.Artist}) > 0

\* metadata.CreateTrack: service.Create(ctx, track, service.IfNotExist()).
\* A record equal to the track in every column but the key counts as the
\* track existing; otherwise the track is inserted under a fresh key.
CreateTrack(cat, id, t, dbOK) ==
    LET same == {r \in cat : [r EXCEPT !.ID = 0] = [t EXCEPT !.ID = 0]}
    IN  IF ~dbOK THEN [err |-> TRUE, catalog |-> cat, track |-> t, nextID |-> id]
        ELSE IF same # {}
        THEN [err |-> FALSE, catalog |-> cat,
              track |-> CHOOSE r \in same : TRUE, nextID |-> id]
        ELSE [err |-> FALSE, catalog |-> cat \cup {[t EXCEPT !.ID = id]},
              track |-> [t EXCEPT !.ID = id], nextID |-> id + 1]

\* the values emomusic may answer with (tenths)
Emotions == {[Valence |-> 5, Arousal |-> 5]}

----------------------------------------------------------------------------
(* The emomusic client. A response of the prediction service is its status,*)
(* its body, whether it carries a Location header, and whether its body    *)
(* can be read to the end. A body is a JSON object with some of the fields *)
(* valence and arousal, or something that is not a JSON document.          *)

StatusOK == 200
StatusFound == 302
\* net/http's Client stops once ten requests have been made for one call
RedirectLimit == 10

Fields == {"valence", "arousal"}
NotJSON == [json |-> FALSE]

Bodies ==
    {NotJSON} \cup
    {b \in [json : {TRUE}, has : SUBSET Fields, valence : {0, 4}, arousal : {0, 4}] :
        /\ "valence" \notin b.has => b.valence = 0
        /\ "arousal" \notin b.has => b.arousal = 0}

Responses ==
    {r \in [status : {StatusOK, StatusFound, 422, 500}, body : Bodies,
            location : BOOLEAN, readable : BOOLEAN] :
        r.location => r.status = StatusFound}

NoResponse == [nil |-> TRUE]
NoError == [kind |-> "nil"]

\* what the client returns: (emotion, err)
Analyzed(e, err) == [emotion |-> e, err |-> err]

\* io.ReadAll(resp.Body), and what a decoder reads: a body that cannot be read
\* to the end gives a prefix, which is no JSON document
ReadAll(r) == IF r.readable THEN r.body ELSE NotJSON

\* json.NewDecoder(resp.Body).Decode(&emotion): a field the object lacks keeps
\* the zero value of the struct
Decode(r) ==
    IF ~ReadAll(r).json
    THEN Analyzed(NoEmotion, [kind |-> "parse"])
    ELSE Analyzed([Valence |-> IF "valence" \in r.body.has THEN r.body.valence ELSE 0,
                   Arousal |-> IF "arousal" \in r.body.has THEN r.body.arousal ELSE 0],
                  NoError)

\* a client that parses the body whatever the status
ParseResponseAnyStatus(r) == Decode(r)

\* AnalyzeURI and AnalyzeFile from "check response" on
ParseResponse(r) ==
    IF r.status # StatusOK
    THEN Analyzed(NoEmotion, [kind |-> "status", status |-> r.status, body |-> ReadAll(r)])
    ELSE Decode(r)

NoCall ==
    [fn |-> "none", pc |-> "idle", requests |-> 0, redirects |-> 0, seen |-> {},
     resp |-> NoResponse, ret |-> Analyzed(NoEmotion, NoError)]

\* the client is called: AnalyzeFile builds the multipart form first and
\* returns the error when the file cannot be opened or copied
CallAnalyze(fn) ==
    /\ analysis.pc = "idle"
    /\ \E formOK \in BOOLEAN :
          analysis' =
              IF fn = "AnalyzeFile" /\ ~formOK
              THEN [NoCall EXCEPT !.fn = fn, !.pc = "returned",
                                  !.ret = Analyzed(NoEmotion, [kind |-> "form"])]
              ELSE [NoCall EXCEPT !.fn = fn, !.pc = "send"]
    /\ UNCHANGED <<sideVars, cfg, fs, idata, catalog, nextID, pc, path, oldpath, opts, track, ret,
                   snap, placed, fault, countErr, origin, hist, calls, httpVars, bulkVars>>

\* http.Get / client.Do: one request is sent; the transport fails, or the
\* service answers; a redirect with a Location is followed by the transport,
\* any other response goes to the function, which returns
RoundTrip ==
    /\ analysis.pc = "send"
    /\ \/ analysis' = [analysis EXCEPT !.requests = @ + 1, !.pc = "returned",
                          !.ret = Analyzed(NoEmotion, [kind |-> "transport"])]
       \/ \E r \in Responses :
             LET a == [analysis EXCEPT !.requests = @ + 1, !.seen = @ \cup {r.status}]
             IN  analysis' =
                     IF r.status = StatusFound /\ r.location
                     THEN IF a.requests >= RedirectLimit
                          THEN [a EXCEPT !.pc = "returned",
                                         !.ret = Analyzed(NoEmotion, [kind |-> "transport"])]
                          ELSE [a EXCEPT !.redirects = @ + 1]
                     ELSE [a EXCEPT !.pc = "returned", !.resp = r,
                                    !.ret = ParseResponse(r)]
    /\ UNCHANGED <<sideVars, cfg, fs, idata, catalog, nextID, pc, path, oldpath, opts, track, ret,
                   snap, placed, fault, countErr, origin, hist, calls, httpVars, bulkVars>>

----------------------------------------------------------------------------
(* Invocations. "c1" calls the exported AddTrack directly, "h1" and "h2"   *)
(* are goroutines of the HTTP server running PostNewTrack, "main" runs     *)
(* AddTracksFromDir.                                                       *)

Handlers == {"h1", "h2"}
Procs == {"c1", "main"} \cup Handlers

NoRequest == [nil |-> TRUE]

\* what AddTrack returns: (track, err); err names the failed step, "" is nil
Returned(t, e) == [track |-> t, err |-> e]
NoReturn == Returned(Nil, "")

NoSnap == [catalog |-> {}, fs |-> <<>>, idata |-> <<>>]

\* the options a direct caller passes
OptionLists ==
    {<<>>, <<[ZeroTrack EXCEPT !.Name = <<"x">>, !.Artist = <<"y">>]>>}

\* the positions at which an invocation is not inside an ingestion
Outside == {"idle", "range"}

\* an ingestion may start; with `exclusive`, only while no other is under way
MayStart(p, exclusive) ==
    /\ calls < (IF exclusive THEN MaxCalls ELSE MaxOverlapping)
    /\ exclusive => \A q \in Procs \ {p} : pc[q] \in Outside

\* the ingestion of p takes the steps evs
Log(p, evs) == hist' = [hist EXCEPT ![p] = @ \o evs]

\* the ingestion of p is over, or begins
Forget(p) == hist' = [hist EXCEPT ![p] = <<>>]

\* entering AddTrack(src, os...)
Enter(p, src, os) ==
    /\ path' = [path EXCEPT ![p] = src]
    /\ oldpath' = [oldpath EXCEPT ![p] = <<>>]
    /\ opts' = [opts EXCEPT ![p] = os]
    /\ track' = [track EXCEPT ![p] = Nil]
    /\ ret' = [ret EXCEPT ![p] = NoReturn]
    /\ placed' = [placed EXCEPT ![p] = <<>>]
    /\ linked' = [linked EXCEPT ![p] = 0]
    /\ fault' = [fault EXCEPT ![p] = {}]
    /\ snap' = [snap EXCEPT ![p] = [catalog |-> catalog, fs |-> fs, idata |-> idata]]
    /\ pc' = [pc EXCEPT ![p] = "extract"]

\* a direct call of the exported method, whatever else is under way
Call(p) ==
    /\ p = "c1"
    /\ pc[p] = "idle"
    /\ \E src \in DOMAIN fs \cup {MissingPath}, os \in OptionLists : Enter(p, src, os)
    /\ calls' = calls + 1
    /\ Forget(p)
    /\ UNCHANGED <<analysis, auxVars, cfg, fs, idata, catalog, nextID, countErr, origin, httpVars, bulkVars>>

\* a direct call of the exported method
CallAddTrack(p, exclusive) == MayStart(p, exclusive) /\ Call(p)

\* the tracks a caller may hand to OverrideTrackMetadata: nil, or a track with
\* any of the four fields left blank; the other fields are set as well
Overrides ==
    {Nil} \cup
    {[ID |-> 9, Name |-> n, Artist |-> a, Album |-> b[1], CoverImageURL |-> b[2],
      AudioFileURL |-> <<"u">>, Emotion |-> [Valence |-> 1, Arousal |-> 1]] :
        n \in {<<>>, <<"x">>, <<"y">>}, a \in {<<>>, <<"y">>},
        b \in {<<<<>>, <<"y">>>>, <<<<"x">>, <<>>>>}}

\* the option lists of at most MaxOptions overrides
OverrideLists == UNION {[1..n -> Overrides] : n \in 0..MaxOptions}

\* a direct call of the exported method with any such list of options
CallAddTrackWithOptions(p) ==
    /\ p = "c1"
    /\ pc[p] = "idle"
    /\ \E src \in DOMAIN fs \cup {MissingPath}, os \in OverrideLists : Enter(p, src, os)
    /\ calls' = calls + 1
    /\ Forget(p)
    /\ UNCHANGED <<analysis, auxVars, cfg, fs, idata, catalog, nextID, countErr, origin, httpVars, bulkVars>>

\* AddTrack returns (nil, err)
Fail(p, e) ==
    /\ ret' = [ret EXCEPT ![p] = Returned(Nil, e)]
    /\ pc' = [pc EXCEPT ![p] = "returned"]

\* AddTrack: get track metadata, apply options
Extract(p) ==
    /\ pc[p] = "extract"
    /\ LET r == TrackFromAudioFile(fs, idata, path[p])
       IN  IF r.err
           THEN Fail(p, "extract") /\ UNCHANGED track
           ELSE /\ track' = [track EXCEPT ![p] = ApplyOptions(opts[p], r.track)]
                /\ pc' = [pc EXCEPT ![p] = "exists"]
                /\ UNCHANGED ret
    /\ UNCHANGED <<analysis, sideVars, cfg, fs, idata, catalog, nextID, path, oldpath, opts, snap,
                   placed, fault, countErr, origin, hist, calls, httpVars, bulkVars>>

\* a duplicate check whose match is noted and the ingestion goes on
CheckExistsGoesOn(p) ==
    /\ pc[p] = "exists"
    /\ \E countOK \in BOOLEAN :
        /\ countErr' = (countErr \/ ~countOK)
        /\ fault' = [fault EXCEPT ![p] = IF countOK THEN @ ELSE @ \cup {"count"}]
        /\ pc' = [pc EXCEPT ![p] = "stat"]
        /\ Log(p, IF TrackExists(catalog, track[p], countOK)
                  THEN <<"count", "found">> ELSE <<"count">>)
    /\ UNCHANGED <<analysis, sideVars, cfg, fs, idata, catalog, nextID, path, oldpath, opts, track, ret,
                   snap, placed, origin, calls, httpVars, bulkVars>>

\* AddTrack: check if track exists
CheckExists(p) ==
    /\ pc[p] = "exists"
    /\ \E countOK \in BOOLEAN :
        /\ countErr' = (countErr \/ ~countOK)
        /\ fault' = [fault EXCEPT ![p] = IF countOK THEN @ ELSE @ \cup {"count"}]
        /\ IF TrackExists(catalog, track[p], countOK)
           THEN Fail(p, "duplicate") /\ Log(p, <<"count", "found">>)
           ELSE /\ pc' = [pc EXCEPT ![p] = "stat"]
                /\ Log(p, <<"count">>)
                /\ UNCHANGED ret
    /\ UNCHANGED <<analysis, sideVars, cfg, fs, idata, catalog, nextID, path, oldpath, opts, track,
                   snap, placed, origin, calls, httpVars, bulkVars>>

\* hardLinkAudioFile: check if the file exists
Stat(p) ==
    /\ pc[p] = "stat"
    /\ oldpath' = [oldpath EXCEPT ![p] = path[p]]
    /\ IF Exists(fs, CanonicalPath(track[p], path[p]))
       THEN Fail(p, "placement") /\ Log(p, <<"unplaced">>)
       ELSE pc' = [pc EXCEPT ![p] = "link"] /\ UNCHANGED <<ret, hist>>
    /\ UNCHANGED <<analysis, sideVars, cfg, fs, idata, catalog, nextID, path, opts, track, snap,
                   placed, fault, countErr, origin, calls, httpVars, bulkVars>>

\* hardLinkAudioFile: hard link
HardLink(p) ==
    /\ pc[p] = "link"
    /\ \E envOK \in BOOLEAN :
        LET newpath == CanonicalPath(track[p], path[p])
            r == Link(fs, path[p], newpath, envOK)
        IN  /\ fault' = [fault EXCEPT ![p] =
                          IF ~envOK THEN @ \cup {"link"}
                          ELSE IF Exists(fs, newpath) THEN @ \cup {"eexist"}
                          ELSE @]
            /\ IF r.ok
               THEN /\ fs' = r.fs
                    /\ path' = [path EXCEPT ![p] = newpath]
                    /\ placed' = [placed EXCEPT ![p] = newpath]
                    /\ linked' = [linked EXCEPT ![p] = r.fs[newpath]]
                    /\ pc' = [pc EXCEPT ![p] = "url"]
                    /\ Log(p, <<"link">>)
                    /\ UNCHANGED ret
               ELSE /\ Fail(p, "placement")
                    /\ Log(p, <<"unplaced">>)
                    /\ UNCHANGED <<fs, path, placed, linked>>
    /\ UNCHANGED <<analysis, auxVars, cfg, idata, catalog, nextID, oldpath, opts, track, snap,
                   countErr, origin, calls, httpVars, bulkVars>>

\* the content at the path of p, Nil once another invocation removed the file
Source(p) == IF Exists(fs, path[p]) THEN Read(fs, idata, path[p]) ELSE Nil

\* a failure after placement that returns without the rollback
AbortNoRollback(p, e) == Fail(p, e)

\* AddTrack: a failure after placement: the error is kept, the rollback follows
Abort(p, e) ==
    /\ ret' = [ret EXCEPT ![p] = Returned(Nil, e)]
    /\ pc' = [pc EXCEPT ![p] = "rollback"]

\* filling the url and saving the record at once, before the analysis
FillUrlAndSave(p) ==
    /\ pc[p] = "url"
    /\ LET u == audioUrl(cfg.BaseUrl, path[p])
       IN  IF u.err
           THEN /\ ret' = [ret EXCEPT ![p] = Returned(Nil, "url")]
                /\ pc' = [pc EXCEPT ![p] = "rollback"]
                /\ UNCHANGED <<track, catalog, nextID, origin>>
           ELSE /\ track' = [track EXCEPT ![p].AudioFileURL = u.url]
                /\ catalog' = catalog \cup
                                {[track[p] EXCEPT !.AudioFileURL = u.url, !.ID = nextID]}
                /\ nextID' = nextID + 1
                /\ origin' = Append(origin, Source(p))
                /\ pc' = [pc EXCEPT ![p] =
                            IF cfg.EnableEmomusic THEN "analyze" ELSE "create"]
                /\ UNCHANGED ret
    /\ UNCHANGED <<analysis, sideVars, cfg, fs, idata, path, oldpath, opts, snap, placed, fault,
                   countErr, hist, calls, httpVars, bulkVars>>

\* AddTrack: fill url
FillUrl(p) ==
    /\ pc[p] = "url"
    /\ LET u == audioUrl(cfg.BaseUrl, path[p])
       IN  IF u.err
           THEN Abort(p, "url") /\ UNCHANGED track
           ELSE /\ track' = [track EXCEPT ![p].AudioFileURL = u.url]
                /\ pc' = [pc EXCEPT ![p] =
                            IF cfg.EnableEmomusic THEN "analyze" ELSE "create"]
                /\ UNCHANGED ret
    /\ UNCHANGED <<analysis, sideVars, cfg, fs, idata, catalog, nextID, path, oldpath, opts, snap,
                   placed, fault, countErr, origin, hist, calls, httpVars, bulkVars>>

\* AddTrack: emotion analyze; emomusic.AnalyzeURI answers or fails
Analyze(p) ==
    /\ pc[p] = "analyze"
    /\ Log(p, <<"analyze">>)
    /\ \/ /\ Abort(p, "analysis")
          /\ fault' = [fault EXCEPT ![p] = @ \cup {"analysis"}]
          /\ UNCHANGED track
       \/ \E e \in Emotions :
            /\ track' = [track EXCEPT ![p].Emotion = e]
            /\ UNCHANGED fault
            /\ pc' = [pc EXCEPT ![p] = "create"]
            /\ UNCHANGED ret
    /\ UNCHANGED <<analysis, sideVars, cfg, fs, idata, catalog, nextID, path, oldpath, opts, snap,
                   placed, countErr, origin, calls, httpVars, bulkVars>>

\* AddTrack: save to db
Create(p) ==
    /\ pc[p] = "create"
    /\ Log(p, <<"create">>)
    /\ \E dbOK \in BOOLEAN :
        LET r == CreateTrack(catalog, nextID, track[p], dbOK)
        IN  /\ fault' = [fault EXCEPT ![p] = IF dbOK THEN @ ELSE @ \cup {"db"}]
            /\ IF r.err
               THEN Abort(p, "persist") /\ UNCHANGED <<track, catalog, nextID, origin>>
               ELSE /\ catalog' = r.catalog
                    /\ nextID' = r.nextID
                    /\ track' = [track EXCEPT ![p] = r.track]
                    /\ origin' = IF r.nextID = nextID THEN origin
                                  ELSE Append(origin, Source(p))
                    /\ pc' = [pc EXCEPT ![p] = "housekeep"]
                    /\ UNCHANGED ret
    /\ UNCHANGED <<analysis, sideVars, cfg, fs, idata, path, oldpath, opts, snap, placed, countErr,
                   calls, httpVars, bulkVars>>

\* a rollback that removes the original instead of the placed file
RollbackOriginal(p) ==
    /\ pc[p] = "rollback"
    /\ Log(p, <<"remove">>)
    /\ fs' = Remove(fs, oldpath[p])
    /\ pc' = [pc EXCEPT ![p] = "returned"]
    /\ UNCHANGED <<analysis, sideVars, cfg, idata, catalog, nextID, path, oldpath, opts, track, ret,
                   snap, placed, fault, countErr, origin, calls, httpVars, bulkVars>>

\* AddTrack: os.Remove(path) // rollback, then return the error
Rollback(p) ==
    /\ pc[p] = "rollback"
    /\ Log(p, <<"remove">>)
    /\ fs' = Remove(fs, path[p])
    /\ pc' = [pc EXCEPT ![p] = "returned"]
    /\ UNCHANGED <<analysis, sideVars, cfg, idata, catalog, nextID, path, oldpath, opts, track, ret,
                   snap, placed, fault, countErr, origin, calls, httpVars, bulkVars>>

\* AddTrack's test before removing the original:
\* strings.HasPrefix(oldpathAbs, aFileDirAbs)
InFileDir(p) == HasPrefix(p, FileDir)

\* a housekeeping that returns the error of a removal that failed
HousekeepEscalates(p) ==
    /\ pc[p] = "housekeep"
    /\ Log(p, IF InFileDir(oldpath[p]) THEN <<"remove">> ELSE <<>>)
    /\ \E removeOK \in (IF InFileDir(oldpath[p]) THEN BOOLEAN ELSE {TRUE}) :
          /\ fs' = IF InFileDir(oldpath[p]) /\ removeOK THEN Remove(fs, oldpath[p]) ELSE fs
          /\ fault' = [fault EXCEPT ![p] = IF removeOK THEN @ ELSE @ \cup {"remove"}]
          /\ ret' = [ret EXCEPT ![p] = IF removeOK THEN Returned(track[p], "")
                                                   ELSE Returned(Nil, "housekeeping")]
    /\ pc' = [pc EXCEPT ![p] = "returned"]
    /\ UNCHANGED <<analysis, sideVars, cfg, idata, catalog, nextID, path, oldpath, opts, track, snap,
                   placed, countErr, origin, calls, httpVars, bulkVars>>

\* AddTrack: os.Remove of the original when it was in FileDir, whose error is
\* dropped, then return the track
Housekeep(p) ==
    /\ pc[p] = "housekeep"
    /\ Log(p, IF InFileDir(oldpath[p]) THEN <<"remove">> ELSE <<>>)
    /\ \E removeOK \in (IF InFileDir(oldpath[p]) THEN BOOLEAN ELSE {TRUE}) :
          /\ fs' = IF InFileDir(oldpath[p]) /\ removeOK THEN Remove(fs, oldpath[p]) ELSE fs
          /\ fault' = [fault EXCEPT ![p] = IF removeOK THEN @ ELSE @ \cup {"remove"}]
    /\ ret' = [ret EXCEPT ![p] = Returned(track[p], "")]
    /\ pc' = [pc EXCEPT ![p] = "returned"]
    /\ UNCHANGED <<analysis, sideVars, cfg, idata, catalog, nextID, path, oldpath, opts, track, snap,
                   placed, countErr, origin, calls, httpVars, bulkVars>>

\* the direct caller takes the result
Return(p) ==
    /\ p = "c1"
    /\ pc[p] = "returned"
    /\ pc' = [pc EXCEPT ![p] = "idle"]
    /\ path' = [path EXCEPT ![p] = <<>>]
    /\ oldpath' = [oldpath EXCEPT ![p] = <<>>]
    /\ opts' = [opts EXCEPT ![p] = <<>>]
    /\ track' = [track EXCEPT ![p] = Nil]
    /\ ret' = [ret EXCEPT ![p] = NoReturn]
    /\ snap' = [snap EXCEPT ![p] = NoSnap]
    /\ placed' = [placed EXCEPT ![p] = <<>>]
    /\ linked' = [linked EXCEPT ![p] = 0]
    /\ fault' = [fault EXCEPT ![p] = {}]
    /\ Forget(p)
    /\ UNCHANGED <<analysis, auxVars, cfg, fs, idata, catalog, nextID, countErr, origin, calls, httpVars, bulkVars>>

----------------------------------------------------------------------------
(* PostNewTrack: POST /{Name}/new.                                         *)

\* the upload of the requests: a file part whose name has no extension
UploadFile == [Filename |-> <<"u">>, data |-> File(<<"x">>, <<"y">>, <<"z">>, 6)]

\* the remote file of the requests and what a GET of it downloads
RemoteURL == <<"/", "/", "r", "/", "v">> \o Mp3
RemoteData == File(<<>>, <<"y">>, <<>>, 7)

\* the requests a client sends: PostNewTrackRequest{Track, File}
Requests ==
    {[Track |-> ZeroTrack, File |-> UploadFile],
     [Track |-> [ZeroTrack EXCEPT !.Album = <<"w">>], File |-> UploadFile],
     [Track |-> [ZeroTrack EXCEPT !.AudioFileURL = RemoteURL], File |-> Nil],
     [Track |-> ZeroTrack, File |-> Nil],
     [Track |-> [ZeroTrack EXCEPT !.AudioFileURL = RemoteURL], File |-> UploadFile]}

\* a check that only asks for a source: a File, an AudioFileURL, or both
checkUploadRequestEither(r) ==
    ~(r.File = Nil /\ r.Track.AudioFileURL = <<>>)

\* checkUploadRequest: exactly one of File and AudioFileURL
checkUploadRequest(r) ==
    /\ ~(r.File = Nil /\ r.Track.AudioFileURL = <<>>)
    /\ ~(r.File # Nil /\ r.Track.AudioFileURL # <<>>)

\* the name guardFilename makes up for an empty one: time.Now().UnixNano()
Timestamp == <<"2">>

\* guardFilename: a made-up name for an empty one, ".mp3" when there is no extension
guardFilename(filename) ==
    LET named == IF filename = <<>> THEN Timestamp \o Mp3 ELSE filename
    IN  IF Ext(named) = <<>> THEN named \o Mp3 ELSE named

\* saveFileFromMultipart's dst
MultipartDst(r) == Join(tmpDir, guardFilename(Base(r.File.Filename)))

\* saveFileFromURL's dst: the last "/"-separated token of the URL
URLDst(r) ==
    LET u == r.Track.AudioFileURL
    IN  Join(tmpDir, guardFilename(SubSeq(u, LastIndex(u, "/") + 1, Len(u))))

\* the handler answers with a status code
Answer(h, code) ==
    /\ resp' = [resp EXCEPT ![h] = code]
    /\ pc' = [pc EXCEPT ![h] = "responded"]

\* PostNewTrack: bind one of the requests rs, checkUploadRequest
Bind(h, rs) ==
    /\ h \in Handlers
    /\ pc[h] = "idle"
    /\ calls' = calls + 1
    /\ \E r \in rs :
        /\ req' = [req EXCEPT ![h] = r]
        /\ IF checkUploadRequest(r)
           THEN pc' = [pc EXCEPT ![h] = "save"] /\ UNCHANGED resp
           ELSE Answer(h, 400)
    /\ UNCHANGED <<analysis, sideVars, cfg, fs, idata, catalog, nextID, path, oldpath, opts, track,
                   ret, snap, placed, fault, countErr, origin, hist, bulkVars>>

\* PostNewTrack begins with a request of the clients
PostNewTrack(h, exclusive) == MayStart(h, exclusive) /\ Bind(h, Requests)

\* PostNewTrack: save file, then enter AddTrack(savedpath,
\* OverrideTrackMetadata(&req.Track)); a failed save or download answers 422
SaveFile(h) ==
    /\ h \in Handlers
    /\ pc[h] = "save"
    /\ \E ok \in BOOLEAN :
        IF ~ok
        THEN /\ Answer(h, 422)
             /\ UNCHANGED <<fs, idata, path, oldpath, opts, track, ret, snap,
                            placed, linked, fault, hist>>
        ELSE LET r == req[h]
                 dst == IF r.File # Nil THEN MultipartDst(r) ELSE URLDst(r)
                 data == IF r.File # Nil THEN r.File.data ELSE RemoteData
                 w == WriteFile(fs, idata, dst, data)
             IN  /\ fs' = w.fs
                 /\ idata' = w.idata
                 /\ path' = [path EXCEPT ![h] = dst]
                 /\ oldpath' = [oldpath EXCEPT ![h] = <<>>]
                 /\ opts' = [opts EXCEPT ![h] = <<r.Track>>]
                 /\ track' = [track EXCEPT ![h] = Nil]
                 /\ ret' = [ret EXCEPT ![h] = NoReturn]
                 /\ placed' = [placed EXCEPT ![h] = <<>>]
                 /\ linked' = [linked EXCEPT ![h] = 0]
                 /\ fault' = [fault EXCEPT ![h] = {}]
                 /\ snap' = [snap EXCEPT ![h] =
                                [catalog |-> catalog, fs |-> w.fs, idata |-> w.idata]]
                 /\ pc' = [pc EXCEPT ![h] = "extract"]
                 /\ Log(h, IF r.File # Nil THEN <<"save">> ELSE <<"download", "save">>)
                 /\ UNCHANGED resp
    /\ UNCHANGED <<analysis, auxVars, cfg, catalog, nextID, countErr, origin, calls, req, bulkVars>>

\* PostNewTrack: 422 when AddTrack failed, 200 with the track otherwise
Respond(h) ==
    /\ h \in Handlers
    /\ pc[h] = "returned"
    /\ Answer(h, IF ret[h].err # "" THEN 422 ELSE 200)
    /\ UNCHANGED <<analysis, sideVars, cfg, fs, idata, catalog, nextID, path, oldpath, opts, track,
                   ret, snap, placed, fault, countErr, origin, hist, calls, req, bulkVars>>

\* the request is over
Done(h) ==
    /\ h \in Handlers
    /\ pc[h] = "responded"
    /\ pc' = [pc EXCEPT ![h] = "idle"]
    /\ req' = [req EXCEPT ![h] = NoRequest]
    /\ resp' = [resp EXCEPT ![h] = 0]
    /\ path' = [path EXCEPT ![h] = <<>>]
    /\ oldpath' = [oldpath EXCEPT ![h] = <<>>]
    /\ opts' = [opts EXCEPT ![h] = <<>>]
    /\ track' = [track EXCEPT ![h] = Nil]
    /\ ret' = [ret EXCEPT ![h] = NoReturn]
    /\ snap' = [snap EXCEPT ![h] = NoSnap]
    /\ placed' = [placed EXCEPT ![h] = <<>>]
    /\ linked' = [linked EXCEPT ![h] = 0]
    /\ fault' = [fault EXCEPT ![h] = {}]
    /\ Forget(h)
    /\ UNCHANGED <<analysis, auxVars, cfg, fs, idata, catalog, nextID, countErr, origin, calls, bulkVars>>

----------------------------------------------------------------------------
(* AddTracksFromDir and enumMusicFiles.                                    *)

\* ch := make(chan string, 3)
ChanCap == 3

\* an extension test that compares the case as well
isMusicFileExact(p) ==
    Ext(p) \in {Mp3, <<".", "w", "a", "v">>, <<".", "m", "4", "a">>}

\* isMusicFile: supported extensions: .mp3, .wav, .m4a
isMusicFile(p) ==
    \E ext \in {ToLower(Ext(p))} :
        ext \in {Mp3, <<".", "w", "a", "v">>, <<".", "m", "4", "a">>}

\* st.IsDir() of os.Stat(dir): a directory exists when something lies below it
IsDirectory(f, dir) == \E q \in DOMAIN f : HasPrefix(q, dir \o <<"/">>)

\* a check that accepts every root that is not the empty string
ValidRootNonEmpty(f, dir) == dir # <<>>

\* enumMusicFiles: the checks before the channel is made
ValidRoot(f, dir) == dir # <<>> /\ IsDirectory(f, dir)

\* AddTracksFromDir: enumMusicFiles(a.FileDir) checks the root, makes the
\* channel and starts the walker goroutine; "main" goes on to range over the
\* channel, or returns the error of enumMusicFiles
AddTracksFromDir(p) ==
    /\ p = "main"
    /\ pc[p] = "idle"
    /\ runs < MaxRuns
    /\ ~walking
    /\ runs' = runs + 1
    /\ sent' = <<>>
    /\ fed' = <<>>
    /\ closes' = 0
    /\ start' = [catalog |-> catalog, fs |-> fs, idata |-> idata]
    /\ runFault' = {}
    /\ IF ValidRoot(fs, cfg.FileDir)
       THEN /\ ch' = <<>>
            /\ chClosed' = FALSE
            /\ walk' = <<[path |-> cfg.FileDir, dir |-> TRUE]>>
            /\ walking' = TRUE
            /\ pc' = [pc EXCEPT ![p] = "range"]
            /\ bulkRet' = "running"
       ELSE /\ bulkRet' = "error"
            /\ UNCHANGED <<ch, chClosed, walk, walking, pc>>
    /\ UNCHANGED <<analysis, sideVars, cfg, fs, idata, catalog, nextID, path, oldpath, opts, track,
                   ret, snap, placed, fault, countErr, origin, hist, calls, httpVars>>

\* a walker whose send never blocks
WalkStepUnbounded ==
    /\ walking
    /\ walk # <<>>
    /\ LET e == Head(walk)
       IN  IF e.dir
           THEN walk' = ReadDir(fs, e.path) \o Tail(walk) /\ UNCHANGED <<ch, sent>>
           ELSE IF isMusicFile(e.path)
           THEN /\ ch' = Append(ch, e.path)
                /\ sent' = Append(sent, e.path)
                /\ walk' = Tail(walk)
           ELSE walk' = Tail(walk) /\ UNCHANGED <<ch, sent>>
    /\ UNCHANGED <<analysis, sideVars, cfg, fs, idata, catalog, nextID, pc, path, oldpath, opts, track,
                   ret, snap, placed, fault, countErr, origin, hist, calls, httpVars, chClosed,
                   walking, runs, fed, closes, bulkRet, start, runFault>>

\* the walker: filepath.WalkDir visits the next entry: a directory is read and
\* its entries come next, a music file is sent to the channel (blocking while
\* the channel is full), anything else is skipped
WalkStep ==
    /\ walking
    /\ walk # <<>>
    /\ LET e == Head(walk)
       IN  IF e.dir
           THEN walk' = ReadDir(fs, e.path) \o Tail(walk) /\ UNCHANGED <<ch, sent>>
           ELSE IF isMusicFile(e.path)
           THEN /\ Len(ch) < ChanCap
                /\ ch' = Append(ch, e.path)
                /\ sent' = Append(sent, e.path)
                /\ walk' = Tail(walk)
           ELSE walk' = Tail(walk) /\ UNCHANGED <<ch, sent>>
    /\ UNCHANGED <<analysis, sideVars, cfg, fs, idata, catalog, nextID, pc, path, oldpath, opts, track,
                   ret, snap, placed, fault, countErr, origin, hist, calls, httpVars, chClosed,
                   walking, runs, fed, closes, bulkRet, start, runFault>>

\* a walker that a walk error ends without the channel being closed
WalkAbortNoClose ==
    /\ walking
    /\ walk # <<>>
    /\ Head(walk).dir
    /\ walk' = <<>>
    /\ walking' = FALSE
    /\ runFault' = runFault \cup {"walk"}
    /\ UNCHANGED <<analysis, sideVars, cfg, fs, idata, catalog, nextID, pc, path, oldpath, opts, track,
                   ret, snap, placed, fault, countErr, origin, hist, calls, httpVars, ch,
                   chClosed, runs, sent, fed, closes, bulkRet, start>>

\* the walker: reading a directory fails, the callback returns the error and
\* WalkDir stops
WalkAbort ==
    /\ walking
    /\ walk # <<>>
    /\ Head(walk).dir
    /\ walk' = <<>>
    /\ runFault' = runFault \cup {"walk"}
    /\ UNCHANGED <<analysis, sideVars, cfg, fs, idata, catalog, nextID, pc, path, oldpath, opts, track,
                   ret, snap, placed, fault, countErr, origin, hist, calls, httpVars, ch,
                   chClosed, walking, runs, sent, fed, closes, bulkRet, start>>

\* the walker: WalkDir is over, defer close(ch)
WalkEnd ==
    /\ walking
    /\ walk = <<>>
    /\ chClosed' = TRUE
    /\ closes' = closes + 1
    /\ walking' = FALSE
    /\ UNCHANGED <<analysis, sideVars, cfg, fs, idata, catalog, nextID, pc, path, oldpath, opts, track,
                   ret, snap, placed, fault, countErr, origin, hist, calls, httpVars, ch, walk,
                   runs, sent, fed, bulkRet, start, runFault>>

\* AddTracksFromDir: for path := range ch { a.AddTrack(path) }; with
\* `exclusive`, an ingestion like any other: counted and one at a time
Receive(p, exclusive) ==
    /\ p = "main"
    /\ pc[p] = "range"
    /\ ch # <<>>
    /\ exclusive => MayStart(p, TRUE)
    /\ calls' = calls + 1
    /\ ch' = Tail(ch)
    /\ fed' = Append(fed, Head(ch))
    /\ Enter(p, Head(ch), <<>>)
    /\ Forget(p)
    /\ UNCHANGED <<analysis, auxVars, cfg, fs, idata, catalog, nextID, countErr, origin, httpVars,
                   chClosed, walk, walking, runs, sent, closes, bulkRet, start, runFault>>

\* a loop that gives up and returns the error of the first AddTrack that fails
ContinueOrStop(p) ==
    /\ p = "main"
    /\ pc[p] = "returned"
    /\ pc' = [pc EXCEPT ![p] = IF ret[p].err # "" THEN "idle" ELSE "range"]
    /\ bulkRet' = IF ret[p].err # "" THEN "error" ELSE bulkRet
    /\ path' = [path EXCEPT ![p] = <<>>]
    /\ oldpath' = [oldpath EXCEPT ![p] = <<>>]
    /\ opts' = [opts EXCEPT ![p] = <<>>]
    /\ track' = [track EXCEPT ![p] = Nil]
    /\ ret' = [ret EXCEPT ![p] = NoReturn]
    /\ snap' = [snap EXCEPT ![p] = NoSnap]
    /\ placed' = [placed EXCEPT ![p] = <<>>]
    /\ linked' = [linked EXCEPT ![p] = 0]
    /\ fault' = [fault EXCEPT ![p] = {}]
    /\ Forget(p)
    /\ runFault' = runFault \cup fault[p]
    /\ UNCHANGED <<analysis, auxVars, cfg, fs, idata, catalog, nextID, countErr, origin, calls, httpVars,
                   ch, chClosed, walk, walking, runs, sent, fed, closes, start>>

\* AddTracksFromDir: an AddTrack error is logged, the loop goes on
Continue(p) ==
    /\ p = "main"
    /\ pc[p] = "returned"
    /\ pc' = [pc EXCEPT ![p] = "range"]
    /\ path' = [path EXCEPT ![p] = <<>>]
    /\ oldpath' = [oldpath EXCEPT ![p] = <<>>]
    /\ opts' = [opts EXCEPT ![p] = <<>>]
    /\ track' = [track EXCEPT ![p] = Nil]
    /\ ret' = [ret EXCEPT ![p] = NoReturn]
    /\ snap' = [snap EXCEPT ![p] = NoSnap]
    /\ placed' = [placed EXCEPT ![p] = <<>>]
    /\ linked' = [linked EXCEPT ![p] = 0]
    /\ fault' = [fault EXCEPT ![p] = {}]
    /\ Forget(p)
    /\ runFault' = runFault \cup fault[p]
    /\ UNCHANGED <<analysis, auxVars, cfg, fs, idata, catalog, nextID, countErr, origin, calls, httpVars,
                   ch, chClosed, walk, walking, runs, sent, fed, closes, bulkRet, start>>

\* AddTracksFromDir: the channel is closed and drained, return nil
BulkDone(p) ==
    /\ p = "main"
    /\ pc[p] = "range"
    /\ ch = <<>>
    /\ chClosed
    /\ pc' = [pc EXCEPT ![p] = "idle"]
    /\ bulkRet' = "nil"
    /\ UNCHANGED <<analysis, sideVars, cfg, fs, idata, catalog, nextID, path, oldpath, opts, track,
                   ret, snap, placed, fault, countErr, origin, hist, calls, httpVars,
                   ch, chClosed, walk, walking, runs, sent, fed, closes, start, runFault>>

----------------------------------------------------------------------------
(* The metadata-first upload handler UploadTrack of package main: the      *)
(* record is created first, then the file is saved under the name of its   *)
(* key, then the emotion is analysed and the record updated.               *)

\* AudioFileDir(): filepath.Join(".", "audio") when MUSICSTORE_FILEPATH is unset
AudioFileDir == <<"a", "u", "d", "i", "o">>

\* AudioFileName: "{trackID}.mp3"
AudioFileName(id) == <<ToString(id)>> \o Mp3

\* TrackFilepath: {AudioFileDir}/{trackID}.mp3
TrackFilepath(id) == Join(AudioFileDir, AudioFileName(id))

\* AudioFileUrlRelevant: /audio/{trackID}.mp3
AudioFileUrlRelevant(id) == <<"/">> \o AudioFileDir \o <<"/">> \o AudioFileName(id)

\* the requests a client sends: UploadTrackRequest{Track, File}
UploadRequests ==
    {[Track |-> ZeroTrack, File |-> UploadFile],
     [Track |-> [ZeroTrack EXCEPT !.Name = <<"x">>, !.Artist = <<"y">>], File |-> UploadFile],
     [Track |-> [ZeroTrack EXCEPT !.Name = <<"v">>, !.AudioFileURL = RemoteURL], File |-> Nil],
     [Track |-> [ZeroTrack EXCEPT !.AudioFileURL = RemoteURL], File |-> Nil],
     [Track |-> ZeroTrack, File |-> Nil]}

\* service.Delete(c, &req.Track): the record of that key
DeleteTrack(cat, t) == {r \in cat : r.ID # t.ID}

\* service.Update(ctx, track): the record of that key takes the fields of track
UpdateTrack(cat, t) == {IF r.ID = t.ID THEN t ELSE r : r \in cat}

\* a failure that answers 422 and leaves the record where it is
FailUploadKeepsRecord(h, e, removeFile) ==
    /\ fs' = fs
    /\ catalog' = catalog
    /\ fault' = [fault EXCEPT ![h] = @ \cup {e}]
    /\ Log(h, <<>>)
    /\ ret' = [ret EXCEPT ![h] = Returned(Nil, e)]
    /\ Answer(h, 422)

\* UploadTrack after the record was created: os.Remove(TrackFilepath(ID))
\* when the failure is that of analyzeAndUpdateEmotion, service.Delete of the
\* record, the errors of both dropped, then the answer 422
FailUpload(h, e, removeFile) ==
    \E removeOK \in (IF removeFile THEN BOOLEAN ELSE {TRUE}), deleteOK \in BOOLEAN :
        /\ fs' = IF removeFile /\ removeOK THEN Remove(fs, TrackFilepath(track[h].ID)) ELSE fs
        /\ catalog' = IF deleteOK THEN DeleteTrack(catalog, track[h]) ELSE catalog
        /\ fault' = [fault EXCEPT ![h] = @ \cup {e}
                                           \cup (IF removeOK THEN {} ELSE {"remove"})
                                           \cup (IF deleteOK THEN {} ELSE {"delete"})]
        /\ Log(h, (IF removeFile THEN <<"remove">> ELSE <<>>) \o <<"delete">>)
        /\ ret' = [ret EXCEPT ![h] = Returned(Nil, e)]
        /\ Answer(h, 422)

\* UploadTrack: bind the request, checkUploadRequest (a source, the name with
\* its filename fallback, trackExists); 400 when the check fails
UploadTrack(h) ==
    /\ h \in Handlers
    /\ pc[h] = "idle"
    /\ MayStart(h, TRUE)
    /\ calls' = calls + 1
    /\ \E r \in UploadRequests, countOK \in BOOLEAN :
         LET t == IF r.Track.Name = <<>> /\ r.File # Nil
                  THEN [r.Track EXCEPT
                          !.Name = TrimSuffix(Base(r.File.Filename), Ext(r.Track.Name))]
                  ELSE r.Track
             counted == ~(r.File = Nil /\ r.Track.AudioFileURL = <<>>) /\ t.Name # <<>>
         IN  /\ req' = [req EXCEPT ![h] = [r EXCEPT !.Track = t]]
             /\ track' = [track EXCEPT ![h] = t]
             /\ countErr' = (countErr \/ (counted /\ ~countOK))
             /\ fault' = [fault EXCEPT ![h] = IF counted /\ ~countOK THEN {"count"} ELSE {}]
             /\ IF counted /\ ~TrackExists(catalog, t, countOK)
                THEN pc' = [pc EXCEPT ![h] = "metadata"] /\ UNCHANGED resp
                ELSE Answer(h, 400)
    /\ Forget(h)
    /\ UNCHANGED <<analysis, sideVars, cfg, fs, idata, catalog, nextID, path, oldpath, opts,
                   ret, snap, placed, origin, bulkVars>>

\* UploadTrack: saveMetadata, service.Create(c, &req.Track, IfNotExist()); 422
\* when it fails
SaveMetadata(h) ==
    /\ h \in Handlers
    /\ pc[h] = "metadata"
    /\ \E dbOK \in BOOLEAN :
         \E c \in {CreateTrack(catalog, nextID, track[h], dbOK)} :
            IF c.err
            THEN /\ Answer(h, 422)
                 /\ ret' = [ret EXCEPT ![h] = Returned(Nil, "metadata")]
                 /\ fault' = [fault EXCEPT ![h] = @ \cup {"metadata"}]
                 /\ UNCHANGED <<catalog, nextID, track, hist>>
            ELSE /\ catalog' = c.catalog
                 /\ nextID' = c.nextID
                 /\ track' = [track EXCEPT ![h] = c.track]
                 /\ Log(h, <<"create">>)
                 /\ pc' = [pc EXCEPT ![h] = IF req[h].File # Nil THEN "file" ELSE "emotion"]
                 /\ UNCHANGED <<ret, resp, fault>>
    /\ UNCHANGED <<analysis, sideVars, cfg, fs, idata, path, oldpath, opts, snap, placed,
                   countErr, origin, calls, req, bulkVars>>

\* UploadTrack: saveFile, c.SaveUploadedFile(file, TrackFilepath(ID)); its
\* failure deletes the record
SaveUploadedFile(h) ==
    /\ h \in Handlers
    /\ pc[h] = "file"
    /\ \/ /\ FailUpload(h, "file", FALSE)
          /\ UNCHANGED <<idata, placed>>
       \/ \E w \in {WriteFile(fs, idata, TrackFilepath(track[h].ID), req[h].File.data)} :
            /\ fs' = w.fs
            /\ idata' = w.idata
            /\ placed' = [placed EXCEPT ![h] = TrackFilepath(track[h].ID)]
            /\ Log(h, <<"save">>)
            /\ pc' = [pc EXCEPT ![h] = "url"]
            /\ UNCHANGED <<catalog, fault, ret, resp>>
    /\ UNCHANGED <<analysis, sideVars, cfg, nextID, path, oldpath, opts, track, snap,
                   countErr, origin, calls, req, bulkVars>>

\* UploadTrack: updateAudioFileURL sets the relative URL of the file and
\* updates the record; its failure deletes the record
UpdateAudioFileURL(h) ==
    /\ h \in Handlers
    /\ pc[h] = "url"
    /\ \E t \in {[track[h] EXCEPT !.AudioFileURL = AudioFileUrlRelevant(track[h].ID)]} :
         /\ track' = [track EXCEPT ![h] = t]
         /\ \/ FailUpload(h, "url", FALSE)
            \/ /\ catalog' = UpdateTrack(catalog, t)
               /\ Log(h, <<"update">>)
               /\ pc' = [pc EXCEPT ![h] = "emotion"]
               /\ UNCHANGED <<fs, fault, ret, resp>>
    /\ UNCHANGED <<analysis, sideVars, cfg, idata, nextID, path, oldpath, opts, snap, placed,
                   countErr, origin, calls, req, bulkVars>>

\* UploadTrack: analyzeAndUpdateEmotion (AnalyzeURI of the absolute URL for a
\* relative one, then the update of the record); its failure removes the
\* file and deletes the record; 200 with the track otherwise
AnalyzeAndUpdateEmotion(h) ==
    /\ h \in Handlers
    /\ pc[h] = "emotion"
    /\ \/ /\ FailUpload(h, "analysis", TRUE)
          /\ UNCHANGED track
       \/ \E e \in Emotions :
            /\ track' = [track EXCEPT ![h].Emotion = e]
            /\ \/ FailUpload(h, "update", TRUE)
               \/ /\ catalog' = UpdateTrack(catalog, [track[h] EXCEPT !.Emotion = e])
                  /\ Log(h, <<"analyze", "update">>)
                  /\ ret' = [ret EXCEPT ![h] = Returned([track[h] EXCEPT !.Emotion = e], "")]
                  /\ Answer(h, 200)
                  /\ UNCHANGED <<fs, fault>>
    /\ UNCHANGED <<analysis, sideVars, cfg, idata, nextID, path, oldpath, opts, snap, placed,
                   countErr, origin, calls, req, bulkVars>>

----------------------------------------------------------------------------
(* GET /murecom: the emotion-distance query. Valence and Arousal are       *)
(* counted in tenths, so that 0.3 is 3 and the interval [0, 1] is 0..10.   *)

\* 1.0, the upper end of the range of Valence and Arousal
EmotionMax == 10
\* 0.3, the half-width of the retrieval window in the SQL
Window == 3
\* the Limit of a request that has none
DefaultLimit == 3
\* the largest Limit accepted
LimitMax == 100

\* the query string of a request as ShouldBindQuery binds it: a parameter
\* that is absent leaves its field at zero; `malformed` is a value that does
\* not parse as a number
MurecomRequests ==
    {r \in [malformed : BOOLEAN,
             hasValence : BOOLEAN, Valence : {-1, 0, 5, EmotionMax + 1},
             hasArousal : BOOLEAN, Arousal : {-1, 0, 5, EmotionMax + 1},
             hasLimit : BOOLEAN, Limit : {-1, 0, 1, DefaultLimit, LimitMax + 1}] :
        /\ ~r.hasValence => r.Valence = 0
        /\ ~r.hasArousal => r.Arousal = 0
        /\ ~r.hasLimit => r.Limit = 0
        /\ r.malformed => (r.hasValence /\ r.Valence = 0 /\ ~r.hasArousal /\ ~r.hasLimit)}

\* no GET /murecom request is being handled
NoQuery == [pc |-> "idle", sent |-> NoRequest, req |-> NoRequest, resp |-> 0,
            tracks |-> <<>>, ran |-> FALSE]

\* validateMurecomRequest: an error when Valence and Arousal are both
\* absent, when one is out of [0, 1], when Limit is not 0 and out of
\* [1, 100]; a Limit of 0 becomes 3
validateMurecomRequest(r) ==
    IF ~r.hasValence /\ ~r.hasArousal THEN [err |-> TRUE, req |-> r]
    ELSE IF r.Valence < 0 \/ r.Valence > EmotionMax THEN [err |-> TRUE, req |-> r]
    ELSE IF r.Arousal < 0 \/ r.Arousal > EmotionMax THEN [err |-> TRUE, req |-> r]
    ELSE IF r.Limit = 0 THEN [err |-> FALSE, req |-> [r EXCEPT !.Limit = DefaultLimit]]
    ELSE IF r.Limit < 1 \/ r.Limit > LimitMax THEN [err |-> TRUE, req |-> r]
    ELSE [err |-> FALSE, req |-> r]

\* ABS(x)
Abs(x) == IF x < 0 THEN -x ELSE x

\* POW(valence - ?, 2) + POW(arousal - ?, 2): the square of the key of the
\* ORDER BY, which orders as its square root does
Dist2(t, v, a) ==
    (t.Emotion.Valence - v) * (t.Emotion.Valence - v)
    + (t.Emotion.Arousal - a) * (t.Emotion.Arousal - a)

\* the WHERE clause
Matching(cat, v, a) ==
    {t \in cat : Abs(t.Emotion.Valence - v) < Window /\ Abs(t.Emotion.Arousal - a) < Window}

\* the ORDER BY clause: the orders the database may return the rows in; rows
\* with equal keys come in any order
Orderings(S, v, a) ==
    {s \in [1..Cardinality(S) -> S] :
        /\ \A i, j \in 1..Cardinality(S) : i # j => s[i] # s[j]
        /\ \A i, j \in 1..Cardinality(S) : i < j => Dist2(s[i], v, a) <= Dist2(s[j], v, a)}

\* the LIMIT clause
Limited(s, limit) == SubSeq(s, 1, IF limit < Len(s) THEN limit ELSE Len(s))

\* the query without its WHERE clause
murecomUnfiltered(cat, v, a, limit) ==
    {Limited(s, limit) : s \in Orderings(cat, v, a)}

\* murecom(emotion, limit): the results the SQL may produce
murecom(cat, v, a, limit) ==
    {Limited(s, limit) : s \in Orderings(Matching(cat, v, a), v, a)}

\* GetMurecom: ShouldBindQuery, validateMurecomRequest
GetMurecom ==
    /\ query.pc = "idle"
    /\ \E r \in MurecomRequests :
          \E v \in {validateMurecomRequest(r)} :
             query' = IF r.malformed
                      THEN [NoQuery EXCEPT !.pc = "answered", !.sent = r, !.resp = 400]
                      ELSE IF v.err
                      THEN [NoQuery EXCEPT !.pc = "answered", !.sent = r, !.resp = 422]
                      ELSE [NoQuery EXCEPT !.pc = "query", !.sent = r, !.req = v.req]
    /\ UNCHANGED <<storeVars, httpVars, bulkVars, analysis, derived, boot>>

\* GetMurecom: murecom(req.Emotion, req.Limit), 500 when the database
\* fails, 200 with the tracks otherwise
RunMurecom ==
    /\ query.pc = "query"
    /\ \E dbOK \in BOOLEAN :
          IF ~dbOK
          THEN query' = [query EXCEPT !.pc = "answered", !.ran = TRUE, !.resp = 500]
          ELSE \E ts \in murecom(catalog, query.req.Valence, query.req.Arousal,
                                  query.req.Limit) :
                  query' = [query EXCEPT !.pc = "answered", !.ran = TRUE,
                                         !.resp = 200, !.tracks = ts]
    /\ UNCHANGED <<storeVars, httpVars, bulkVars, analysis, derived, boot>>

\* the request is over
MurecomDone ==
    /\ query.pc = "answered"
    /\ query' = NoQuery
    /\ UNCHANGED <<storeVars, httpVars, bulkVars, analysis, derived, boot>>

\* a track of the catalog with its emotion score
Scored(id, v, a) ==
    [ZeroTrack EXCEPT !.ID = id, !.Name = <<"t">>, !.Artist = <<"y">>,
                      !.Emotion = [Valence |-> v, Arousal |-> a]]

\* tracks a catalog may hold: three far apart, two at the same distance of
\* the first, one at 0.3 of it
ScoredTracks ==
    {Scored(1, 5, 5), Scored(2, 9, 9), Scored(3, 1, 1), Scored(4, 5, 7),
     Scored(5, 7, 5), Scored(6, 2, 5)}

----------------------------------------------------------------------------
(* Startup: main's startServices and the goroutine of startHttpServer.     *)

\* the routes of the metadata module and of the store
TracksRoute == <<"/", "t", "r", "a", "c", "k", "s">>
MurecomRoute == <<"/", "m", "u", "r", "e", "c", "o", "m">>
NewTrackRoute == <<"/">> \o Name \o <<"/", "n", "e", "w">>

\* startServices is not running
NotBooting ==
    [pc |-> "none", server |-> "none", db |-> FALSE, routes |-> {}, LoadFromDir |-> FALSE]

\* startServices: startHttpServer starts the goroutine that will call
\* ListenAndServe, and returns
StartHttpServer ==
    /\ boot.pc = "start"
    /\ boot' = [boot EXCEPT !.pc = "metadata", !.server = "spawned"]
    /\ UNCHANGED <<storeVars, httpVars, bulkVars, analysis, derived, query>>

\* the goroutine of startHttpServer: srv.ListenAndServe() binds the address
\* and serves, or fails and logger.Fatalf ends the process
ListenAndServe ==
    /\ boot.pc # "exited"
    /\ boot.server = "spawned"
    /\ \/ boot' = [boot EXCEPT !.server = "listening"]
       \/ boot' = [boot EXCEPT !.server = "failed", !.pc = "exited"]
    /\ UNCHANGED <<storeVars, httpVars, bulkVars, analysis, derived, query>>

\* startServices: metadata.Start connects the database, registers the model
\* and the routes /tracks and /murecom
MetadataStart ==
    /\ boot.pc = "metadata"
    /\ boot' = [boot EXCEPT !.pc = "store", !.db = TRUE,
                            !.routes = @ \cup {TracksRoute, MurecomRoute}]
    /\ UNCHANGED <<storeVars, httpVars, bulkVars, analysis, derived, query>>

\* startAudioFileStore: NewAudioFileStore registers the static route and
\* POST /new of the store; with LoadFromDir the bulk import follows
StartAudioFileStore ==
    /\ boot.pc = "store"
    /\ boot' = [boot EXCEPT !.pc = IF boot.LoadFromDir THEN "load" ELSE "serving",
                            !.routes = @ \cup {audioStaticBasePath, NewTrackRoute}]
    /\ UNCHANGED <<storeVars, httpVars, bulkVars, analysis, derived, query>>

\* startServices: the import returned; its error ends the process with
\* logger.Fatalf, otherwise startServices returns
LoadReturned ==
    /\ boot.pc = "load"
    /\ pc["main"] = "idle"
    /\ bulkRet \in {"nil", "error"}
    /\ boot' = [boot EXCEPT !.pc = IF bulkRet = "error" THEN "exited" ELSE "serving"]
    /\ UNCHANGED <<storeVars, httpVars, bulkVars, analysis, derived, query>>

----------------------------------------------------------------------------
(* The specifications.                                                     *)

\* nothing is running
InitProcs ==
    /\ pc = [p \in Procs |-> "idle"]
    /\ path = [p \in Procs |-> <<>>]
    /\ oldpath = [p \in Procs |-> <<>>]
    /\ opts = [p \in Procs |-> <<>>]
    /\ track = [p \in Procs |-> Nil]
    /\ ret = [p \in Procs |-> NoReturn]
    /\ snap = [p \in Procs |-> NoSnap]
    /\ placed = [p \in Procs |-> <<>>]
    /\ fault = [p \in Procs |-> {}]
    /\ countErr = FALSE
    /\ origin = <<>>
    /\ hist = [p \in Procs |-> <<>>]
    /\ calls = 0
    /\ req = [h \in Handlers |-> NoRequest]
    /\ resp = [h \in Handlers |-> 0]
    /\ ch = <<>>
    /\ chClosed = FALSE
    /\ walk = <<>>
    /\ walking = FALSE
    /\ runs = 0
    /\ sent = <<>>
    /\ fed = <<>>
    /\ closes = 0
    /\ bulkRet = "none"
    /\ start = NoSnap
    /\ runFault = {}
    /\ analysis = NoCall
    /\ derived = NoDerivation
    /\ boot = NotBooting
    /\ query = NoQuery
    /\ linked = [p \in Procs |-> 0]

\* nothing is in the catalog and nothing is running
InitIdle ==
    /\ catalog = {}
    /\ nextID = 1
    /\ InitProcs

InitStore ==
    /\ cfg \in [EnableEmomusic : BOOLEAN, BaseUrl : {GoodBaseUrl, BadBaseUrl},
                 FileDir : {FileDir}]
    /\ fs = InitialFs
    /\ idata = InitialData
    /\ InitIdle

Init == InitStore

\* a store started on a library, whatever root it is configured with
InitEnum ==
    /\ cfg \in [EnableEmomusic : BOOLEAN, BaseUrl : {GoodBaseUrl}, FileDir : Roots]
    /\ fs = LibraryFs
    /\ idata = LibraryData
    /\ InitIdle

\* a store with analysis enabled and a base URL that parses
InitPar ==
    /\ InitStore
    /\ cfg = [EnableEmomusic |-> TRUE, BaseUrl |-> GoodBaseUrl, FileDir |-> FileDir]

\* the steps of AddTrack
AddTrackStep(p) ==
    \/ Extract(p)
    \/ CheckExists(p)
    \/ Stat(p)
    \/ HardLink(p)
    \/ FillUrl(p)
    \/ Analyze(p)
    \/ Create(p)
    \/ Rollback(p)
    \/ Housekeep(p)

\* ingestions one at a time: direct calls of AddTrack and uploads
Next ==
    \E p \in {"c1", "h1"} :
        \/ CallAddTrack(p, TRUE)
        \/ Return(p)
        \/ PostNewTrack(p, TRUE)
        \/ SaveFile(p)
        \/ Respond(p)
        \/ Done(p)
        \/ AddTrackStep(p)

Spec == Init /\ [][Next]_vars

\* ingestions one at a time: bulk imports of the store's root and uploads
NextBulk ==
    \/ WalkStep
    \/ WalkEnd
    \/ \E p \in {"main", "h1"} :
        \/ AddTracksFromDir(p)
        \/ Receive(p, TRUE)
        \/ Continue(p)
        \/ BulkDone(p)
        \/ PostNewTrack(p, TRUE)
        \/ SaveFile(p)
        \/ Respond(p)
        \/ Done(p)
        \/ AddTrackStep(p)

SpecBulk == InitPar /\ [][NextBulk]_vars

\* the HTTP server's goroutines: uploads that overlap
NextPar ==
    \E p \in Handlers :
        \/ PostNewTrack(p, FALSE)
        \/ SaveFile(p)
        \/ Respond(p)
        \/ Done(p)
        \/ AddTrackStep(p)

SpecPar == InitPar /\ [][NextPar]_vars

\* the bulk import at the start of the store: the walker goroutine and the
\* consumer
NextEnum ==
    \/ WalkStep
    \/ WalkAbort
    \/ WalkEnd
    \/ \E p \in {"main"} :
        \/ AddTracksFromDir(p)
        \/ Receive(p, FALSE)
        \/ Continue(p)
        \/ BulkDone(p)
        \/ AddTrackStep(p)

SpecEnum == InitEnum /\ [][NextEnum]_vars

\* one direct call with options, up to the end of the loop over the options
NextOptions == \E p \in {"c1"} : CallAddTrackWithOptions(p) \/ Extract(p)

SpecOptions == InitPar /\ [][NextOptions]_vars

\* one call of the emomusic client
NextClient == (\E fn \in {"AnalyzeURI", "AnalyzeFile"} : CallAnalyze(fn)) \/ RoundTrip

SpecClient == InitPar /\ [][NextClient]_vars

\* the walker goroutine, when it can run
WalkerNext == WalkStep \/ WalkEnd

\* the consumer, when it can run; every AddTrack call returns
ConsumerNext ==
    \E p \in {"main"} : Receive(p, FALSE) \/ Continue(p) \/ BulkDone(p) \/ AddTrackStep(p)

\* a library of four supported files, one of them in a subdirectory, and one
\* other file
StreamFs ==
    [q \in {Join(FileDir, <<"a">> \o Mp3),
            Join(FileDir, <<"b", ".", "M", "P", "3">>),
            Join(Join(FileDir, <<"d">>), <<"e", ".", "w", "a", "v">>),
            Join(FileDir, <<"g", ".", "m", "4", "a">>),
            Join(FileDir, <<"n", ".", "t", "x", "t">>)} |-> LibraryFs[q]]

\* a store constructed over that library
InitEnumFair ==
    /\ cfg \in [EnableEmomusic : BOOLEAN, BaseUrl : {GoodBaseUrl}, FileDir : {FileDir}]
    /\ fs = StreamFs
    /\ idata = LibraryData
    /\ InitIdle

\* the bulk import with both goroutines scheduled whenever they can run
SpecEnumFair ==
    InitEnumFair /\ [][NextEnum]_vars /\ WF_vars(WalkerNext) /\ WF_vars(ConsumerNext)

\* calls of audioUrl on a store as constructed
SpecUrl == InitStore /\ [][CallAudioUrl]_vars

\* a store next to which there is a file named ".mp3", whose tags hold an
\* artist and an album and no title
InitHidden ==
    /\ cfg \in [EnableEmomusic : BOOLEAN, BaseUrl : {GoodBaseUrl}, FileDir : {FileDir}]
    /\ fs = InitialFs @@ (Join(OutsideDir, Mp3) :> Len(InitialData) + 1)
    /\ idata = Append(InitialData, File(<<>>, <<"y">>, <<"z">>, Len(InitialData) + 1))
    /\ InitIdle

\* direct calls of AddTrack, one at a time
NextDirect == \E p \in {"c1"} : CallAddTrack(p, TRUE) \/ AddTrackStep(p) \/ Return(p)

SpecHidden == InitHidden /\ [][NextDirect]_vars

\* a store whose catalog holds scored tracks
InitMurecom ==
    /\ cfg = [EnableEmomusic |-> TRUE, BaseUrl |-> GoodBaseUrl, FileDir |-> FileDir]
    /\ fs = InitialFs
    /\ idata = InitialData
    /\ catalog \in SUBSET ScoredTracks
    /\ nextID = Cardinality(ScoredTracks) + 1
    /\ InitProcs

\* GET /murecom requests, one at a time
NextMurecom == GetMurecom \/ RunMurecom \/ MurecomDone

SpecMurecom == InitMurecom /\ [][NextMurecom]_vars

\* startAudioFileStore: afs.AddTracksFromDir(), its goroutine and the calls
\* of AddTrack it makes
LoadFromDir ==
    /\ boot.pc = "load"
    /\ \/ WalkStep
       \/ WalkAbort
       \/ WalkEnd
       \/ \E p \in {"main"} :
            \/ bulkRet = "none" /\ AddTracksFromDir(p)
            \/ Receive(p, FALSE)
            \/ Continue(p)
            \/ BulkDone(p)
            \/ AddTrackStep(p)

\* the process as main enters startServices, configured with one store
InitBoot ==
    /\ cfg \in [EnableEmomusic : BOOLEAN, BaseUrl : {GoodBaseUrl}, FileDir : Roots]
    /\ fs = StreamFs
    /\ idata = LibraryData
    /\ catalog = {}
    /\ nextID = 1
    /\ pc = [p \in Procs |-> "idle"]
    /\ path = [p \in Procs |-> <<>>]
    /\ oldpath = [p \in Procs |-> <<>>]
    /\ opts = [p \in Procs |-> <<>>]
    /\ track = [p \in Procs |-> Nil]
    /\ ret = [p \in Procs |-> NoReturn]
    /\ snap = [p \in Procs |-> NoSnap]
    /\ placed = [p \in Procs |-> <<>>]
    /\ fault = [p \in Procs |-> {}]
    /\ countErr = FALSE
    /\ origin = <<>>
    /\ hist = [p \in Procs |-> <<>>]
    /\ calls = 0
    /\ req = [h \in Handlers |-> NoRequest]
    /\ resp = [h \in Handlers |-> 0]
    /\ ch = <<>>
    /\ chClosed = FALSE
    /\ walk = <<>>
    /\ walking = FALSE
    /\ runs = 0
    /\ sent = <<>>
    /\ fed = <<>>
    /\ closes = 0
    /\ bulkRet = "none"
    /\ start = NoSnap
    /\ runFault = {}
    /\ analysis = NoCall
    /\ derived = NoDerivation
    /\ query = NoQuery
    /\ linked = [p \in Procs |-> 0]
    /\ boot \in [pc : {"start"}, server : {"none"}, db : {FALSE}, routes : {{}},
                  LoadFromDir : BOOLEAN]

\* startup, the listener goroutine running when it is scheduled
NextBoot ==
    \/ StartHttpServer
    \/ ListenAndServe
    \/ MetadataStart
    \/ StartAudioFileStore
    \/ LoadFromDir
    \/ LoadReturned

SpecBoot == InitBoot /\ [][NextBoot]_vars

\* direct calls of AddTrack and GET /murecom requests, one at a time, on a
\* store with or without analysis
InitIngestQuery ==
    /\ InitStore
    /\ cfg.BaseUrl = GoodBaseUrl

NextIngestQuery ==
    \/ query.pc = "idle" /\ NextDirect
    \/ pc["c1"] = "idle" /\ NextMurecom

SpecIngestQuery == InitIngestQuery /\ [][NextIngestQuery]_vars

\* the metadata-first server: an empty audio directory and an empty catalog
InitUpload ==
    /\ cfg = [EnableEmomusic |-> TRUE, BaseUrl |-> GoodBaseUrl, FileDir |-> AudioFileDir]
    /\ fs = <<>>
    /\ idata = <<>>
    /\ InitIdle

\* POST /new requests handled by UploadTrack, one at a time
NextUpload ==
    \E h \in {"h1"} :
        \/ UploadTrack(h)
        \/ SaveMetadata(h)
        \/ SaveUploadedFile(h)
        \/ UpdateAudioFileURL(h)
        \/ AnalyzeAndUpdateEmotion(h)
        \/ Done(h)

SpecUpload == InitUpload /\ [][NextUpload]_vars

----------------------------------------------------------------------------
(* Vocabulary of the properties.                                           *)

SamePair(a, b) == a.Name = b.Name /\ a.Artist = b.Artist

PairPresent(cat, t) == \E r \in cat : SamePair(r, t)

\* AddTrack of invocation p has returned and its caller has not yet gone on
AtReturn(p) == pc[p] = "returned"

\* the source file of invocation p as it was when AddTrack was entered
SourceAtEntry(p) == Read(snap[p].fs, snap[p].idata, oldpath[p])

\* a path lies inside the store's root directory
InsideRoot(p) == HasPrefix(p, FileDir \o <<"/">>)

\* AddTrack of p returned a Track with a key, the Track is in the catalog, and
\* its AudioFileURL is served from an existing file equal to the source
Succeeded(p) ==
    /\ ret[p].err = ""
    /\ ret[p].track # Nil
    /\ ret[p].track.ID # 0
    /\ ret[p].track \in catalog
    /\ LET f == ServedPath(cfg.BaseUrl, ret[p].track.AudioFileURL)
       IN  /\ Exists(fs, f)
           /\ InsideRoot(f)
           /\ Read(fs, idata, f) = SourceAtEntry(p)

----------------------------------------------------------------------------
(* C1. After any sequence of AddTrack calls run one at a time, with a      *)
(* catalog that answered every count query, no two Tracks of the catalog   *)
(* share a (name, artist) pair.                                            *)

C1_NoDuplicatePairs ==
    ~countErr => \A r, q \in catalog : SamePair(r, q) => r = q

C1_Witness ==
    /\ ~countErr
    /\ Cardinality(catalog) >= 2
    /\ \E p \in Procs : AtReturn(p) /\ ret[p].err = "duplicate"

(* C2. Every AddTrack call whose (name, artist), after extraction and      *)
(* options, is already in the catalog fails with the duplicate error and   *)
(* leaves the catalog and the filesystem as they were.                     *)

C2_DuplicateRefusedUnchanged ==
    \A p \in Procs :
        (AtReturn(p) /\ track[p] # Nil /\ PairPresent(snap[p].catalog, track[p]))
        => /\ ret[p].err = "duplicate"
           /\ catalog = snap[p].catalog
           /\ fs = snap[p].fs
           /\ idata = snap[p].idata

(* C3 as claimed, read in its favour (no call to the environment failed,   *)
(* the base URL parses): every AddTrack call on a readable source whose    *)
(* (name, artist) is not in the catalog succeeds, with a keyed Track in    *)
(* the catalog whose AudioFileURL is served from a file equal to the       *)
(* source.                                                                 *)

C3_AbsentPairSucceeds ==
    \A p \in Procs :
        (/\ AtReturn(p)
         /\ track[p] # Nil
         /\ ~PairPresent(snap[p].catalog, track[p])
         /\ fault[p] = {}
         /\ UrlParses(cfg.BaseUrl))
        => Succeeded(p)

(* C3 as amended: the same, for calls whose canonical destination path did *)
(* not exist when AddTrack was entered.                                    *)

C3_AbsentPairFreeDestinationSucceeds ==
    \A p \in Procs :
        (/\ AtReturn(p)
         /\ track[p] # Nil
         /\ ~PairPresent(snap[p].catalog, track[p])
         /\ fault[p] = {}
         /\ UrlParses(cfg.BaseUrl)
         /\ \/ oldpath[p] = <<>>
            \/ ~Exists(snap[p].fs, CanonicalPath(track[p], oldpath[p])))
        => Succeeded(p)

C3_Witness ==
    \E p \in Procs :
        /\ AtReturn(p)
        /\ Succeeded(p)
        /\ fault[p] = {}
        /\ ~PairPresent(snap[p].catalog, track[p])
        /\ ~Exists(snap[p].fs, CanonicalPath(track[p], oldpath[p]))

(* C4. When placement succeeded, analysis is enabled and the analysis call *)
(* failed, AddTrack returns an error, no record of the attempt is in the   *)
(* catalog and the file it placed is gone.                                 *)

C5_FailureLeavesCatalog ==
    \A p \in Procs :
        (AtReturn(p) /\ ret[p].err # "") => catalog = snap[p].catalog

C5_Witness ==
    /\ catalog # {}
    /\ \E p \in Procs : AtReturn(p) /\ ret[p].err = "persist"

(* C6. When placement succeeded and then URL derivation or the catalog     *)
(* create failed, AddTrack returns that error with the placed file removed *)
(* and the source still at its original path, unchanged.                   *)

C7_TrackFilesExist ==
    (\A p \in Procs : pc[p] \in Outside)
    => \A r \in catalog :
        r.AudioFileURL # <<>>
        => LET f == ServedPath(cfg.BaseUrl, r.AudioFileURL)
           IN  /\ Exists(fs, f)
               /\ Read(fs, idata, f) = origin[r.ID]

(* C8. Under every interleaving of the ingestions of one store, with a     *)
(* catalog that answered every count query, no two Tracks of the catalog   *)
(* share a (name, artist) pair.                                            *)

C8_NoDuplicatePairsInterleaved ==
    ~countErr => \A r, q \in catalog : r.ID # q.ID => ~SamePair(r, q)

(* C9. A step of hardLinkAudioFile (its existence check or its link) taken *)
(* while a file exists at the destination returns a placement error and    *)
(* leaves every directory entry and every file's content as it was, also   *)
(* when another placement created the destination after the check.         *)

C9_ExistingDestinationNeverOverwritten ==
    [][\A p \in Procs :
        (/\ pc[p] \in {"stat", "link"}
         /\ pc'[p] # pc[p]
         /\ Exists(fs, CanonicalPath(track[p], path[p])))
        => /\ pc'[p] = "returned"
           /\ ret'[p].err = "placement"
           /\ fs' = fs
           /\ idata' = idata]_vars

C9_Witness ==
    \E p \in Procs :
        /\ AtReturn(p)
        /\ ret[p].err = "placement"
        /\ "eexist" \in fault[p]
        /\ Exists(fs, CanonicalPath(track[p], path[p]))

(* C10. After a successful AddTrack the source file is gone if and only if *)
(* its path lies inside the store's root; a source in a directory whose    *)
(* name merely starts with the root's name is still there.                 *)

C10_SourceRemovedIffInsideRoot ==
    \A p \in Procs :
        (AtReturn(p) /\ ret[p].err = "")
        => (~Exists(fs, oldpath[p]) <=> InsideRoot(oldpath[p]))

----------------------------------------------------------------------------
(* The order of the steps of an ingestion.                                 *)

\* the positions of step e in the history h
At(h, e) == {i \in 1..Len(h) : h[i] = e}

\* step e was taken before position i of h
Earlier(h, e, i) == \E j \in At(h, e) : j < i

\* filesystem writes and network calls
SideEffects == {"download", "save", "link", "analyze", "create", "remove"}

\* the steps of the upload stage, which come before AddTrack is entered
UploadStage == {"download", "save"}

\* the steps of h that AddTrack itself took
AddTrackSteps(h) == SelectSeq(h, LAMBDA e : e \notin UploadStage)

\* the order of the steps in the history h of one ingestion
StepsInOrder(h) ==
    /\ \A e \in {"count", "link", "analyze", "create"} : Cardinality(At(h, e)) <= 1
    /\ \A i \in 1..Len(h) : h[i] \in SideEffects => Earlier(h, "count", i)
    /\ \A i \in At(h, "analyze") : Earlier(h, "link", i)
    /\ \A i \in At(h, "create") :
            /\ Earlier(h, "link", i)
            /\ cfg.EnableEmomusic => Earlier(h, "analyze", i)
            /\ \A j \in (i + 1)..Len(h) : h[j] = "remove"
    /\ (At(h, "found") # {} \/ At(h, "unplaced") # {})
            => At(h, "analyze") = {} /\ At(h, "create") = {}

(* C11 as claimed, over the whole ingestion, the upload stage of            *)
(* PostNewTrack included: the duplicate check comes before every           *)
(* filesystem write and network call, placement before analysis, the       *)
(* create after both and last of the fallible steps, and no analysis or    *)
(* create follows a match of the duplicate check or a failed placement.    *)

C11_StepsInOrderFromUpload == \A p \in Procs : StepsInOrder(hist[p])

(* C11, amended: the same order over the steps AddTrack itself takes; the  *)
(* upload stage of PostNewTrack downloads and writes the temporary file    *)
(* before AddTrack and its duplicate check begin.                          *)

C11_AddTrackStepsInOrder == \A p \in Procs : StepsInOrder(AddTrackSteps(hist[p]))

C11_Witness ==
    \E p \in Handlers :
        /\ AtReturn(p)
        /\ ret[p].err = ""
        /\ At(hist[p], "download") # {}
        /\ At(hist[p], "analyze") # {}
        /\ At(hist[p], "create") # {}

----------------------------------------------------------------------------
(* The temporary file of an upload.                                        *)

\* the path at which saveFile saved the upload of handler h
SavedPath(h) == IF req[h].File # Nil THEN MultipartDst(req[h]) ELSE URLDst(req[h])

(* C12. Once a PostNewTrack request that saved a temporary file in the     *)
(* scratch directory has been answered, with 200 or with an error, the     *)
(* temporary file no longer exists.                                        *)

C12_TemporaryFileGoneAfterAnswer ==
    \A h \in Handlers :
        (pc[h] = "responded" /\ At(hist[h], "save") # {})
        => ~Exists(fs, SavedPath(h))

----------------------------------------------------------------------------
(* The bulk import.                                                        *)

(* C13. In a run of AddTracksFromDir the paths passed to AddTrack are the  *)
(* paths the walker sent, each once and in the order sent: what was sent   *)
(* is what was passed on followed by what is still queued. When the run    *)
(* has returned nil every path sent was attempted, whichever AddTrack      *)
(* calls failed, and an error is returned only when nothing was ever sent. *)

C13_EveryPathFedOnceInOrder ==
    /\ sent = fed \o ch
    /\ \A i, j \in 1..Len(fed) : fed[i] = fed[j] => i = j
    /\ bulkRet = "nil" => fed = sent
    /\ bulkRet = "error" => sent = <<>> /\ fed = <<>>

\* a run that returned nil after five attempts of which three failed
C13_Witness ==
    /\ bulkRet = "nil"
    /\ Len(fed) = 5
    /\ Cardinality(catalog) = 2

\* the elements of a sequence
Range(q) == {q[i] : i \in 1..Len(q)}

\* the name q ends in .mp3, .wav or .m4a, whatever the case of the letters
HasSupportedExtension(q) ==
    \E e \in {<<".", "m", "p", "3">>, <<".", "w", "a", "v">>, <<".", "m", "4", "a">>} :
        /\ Len(q) > Len(e)
        /\ ToLower(SubSeq(q, Len(q) - Len(e) + 1, Len(q))) = e

\* the files with a supported extension that were in the tree when the run began
SupportedAtStart ==
    {q \in DOMAIN start.fs :
        HasPrefix(q, cfg.FileDir \o <<"/">>) /\ HasSupportedExtension(q)}

\* the Track extracted from file q as it was when the run began
TrackAtStart(q) == TrackFromAudioFile(start.fs, start.idata, q)

Pair(t) == <<t.Name, t.Artist>>

\* the (name, artist) pairs of the readable supported files that were not in
\* the catalog when the run began
FreshPairs ==
    {Pair(TrackAtStart(q).track) : q \in {f \in SupportedAtStart : ~TrackAtStart(f).err}}
        \ {Pair(r) : r \in start.catalog}

\* the Tracks the run created
Ingested == catalog \ start.catalog

\* the run is over and nothing in the environment failed during it
CleanRun == bulkRet = "nil" /\ runFault = {}

(* C14 as claimed, read in its favour (unreadable files do not count, no   *)
(* call to the environment failed): a bulk import calls AddTrack on the    *)
(* files with a supported extension and on nothing else, and once it is    *)
(* over the Tracks it created are exactly one for each (name, artist) of   *)
(* those files that was not in the catalog.                                *)

C14_ImportsEverySupportedFile ==
    /\ Range(fed) \subseteq SupportedAtStart
    /\ (bulkRet = "nil" /\ "walk" \notin runFault) => Range(fed) = SupportedAtStart
    /\ CleanRun => /\ {Pair(r) : r \in Ingested} = FreshPairs
                   /\ Cardinality(Ingested) = Cardinality(FreshPairs)

(* C14, amended: AddTrack is called on the supported files and on nothing  *)
(* else; the Tracks created carry distinct (name, artist) pairs of those   *)
(* files, new to the catalog, and every such pair of a file whose          *)
(* canonical destination was free when the run began is ingested. A file   *)
(* whose canonical destination is taken, such as a file already stored     *)
(* under its canonical name, is not ingested.                              *)

C14_ImportsSupportedFilesWithFreeDestination ==
    /\ Range(fed) \subseteq SupportedAtStart
    /\ (bulkRet = "nil" /\ "walk" \notin runFault) => Range(fed) = SupportedAtStart
    /\ CleanRun =>
        /\ {Pair(r) : r \in Ingested} \subseteq FreshPairs
        /\ Cardinality(Ingested) = Cardinality({Pair(r) : r \in Ingested})
        /\ \A q \in SupportedAtStart :
            LET t == TrackAtStart(q)
            IN  (/\ ~t.err
                 /\ Pair(t.track) \in FreshPairs
                 /\ ~Exists(start.fs, CanonicalPath(t.track, q)))
                => Pair(t.track) \in {Pair(r) : r \in Ingested}

C14_Witness ==
    /\ CleanRun
    /\ Len(fed) = 5
    /\ Cardinality(Ingested) = 2

\* the walker has a path to send and the queue is full
WalkerBlocked ==
    /\ walking
    /\ walk # <<>>
    /\ ~Head(walk).dir
    /\ HasSupportedExtension(Head(walk).path)
    /\ Len(ch) = ChanCap

(* C15. The queue between the walker and the consumer never holds more     *)
(* than 3 paths, so the walker has sent at most 3 paths more than were     *)
(* passed to AddTrack; while the queue is full and the walker has a path   *)
(* to send, the traversal does not advance and nothing is sent.            *)

C15_QueueNeverExceedsCapacity ==
    /\ [](Len(ch) <= 3 /\ Len(sent) - Len(fed) <= 3)
    /\ [][WalkerBlocked => (walk' = walk /\ sent' = sent)]_vars

\* the walker is blocked with a fourth path while the consumer is in AddTrack
C15_Witness == WalkerBlocked /\ pc["main"] = "extract"

(* C16. The channel of a run is closed once, when the walk is over, be it  *)
(* ended or aborted by a walk error, and nothing is sent after the close;  *)
(* with both goroutines running and every AddTrack call returning, a run   *)
(* that started enumerating eventually returns nil having received every   *)
(* path that was sent.                                                     *)

C16_ClosedOnceAndReturns ==
    /\ [](/\ closes <= 1
          /\ chClosed => (closes = 1 /\ ~walking)
          /\ bulkRet = "nil" => (closes = 1 /\ ch = <<>>))
    /\ [][(chClosed /\ chClosed') => sent' = sent]_vars
    /\ (bulkRet = "running") ~> (bulkRet = "nil" /\ fed = sent)

\* a walk that an error aborted after two sends, closed and drained
C16_Witness ==
    /\ bulkRet = "nil"
    /\ "walk" \in runFault
    /\ closes = 1
    /\ Len(fed) = 2

(* C17. With a root that is empty, that does not exist or that is not a    *)
(* directory, no walker is ever started, no path is sent or received,      *)
(* AddTrack is never called, the channel is never closed, and every run of *)
(* AddTracksFromDir has returned an error.                                 *)

C17_InvalidRootFailsBeforeEnumeration ==
    (\/ cfg.FileDir = <<>>
     \/ Exists(fs, cfg.FileDir)
     \/ \A q \in DOMAIN fs : ~HasPrefix(q, cfg.FileDir \o <<"/">>)) =>
        /\ ~walking
        /\ walk = <<>> /\ ch = <<>> /\ sent = <<>> /\ fed = <<>>
        /\ closes = 0
        /\ calls = 0 /\ pc["main"] = "idle"
        /\ bulkRet \in {"none", "error"}
        /\ runs > 0 => bulkRet = "error"

\* a run over a root that is a regular file has returned its error
C17_Witness ==
    /\ bulkRet = "error"
    /\ Exists(fs, cfg.FileDir)
    /\ runs > 0

(* C18. After AddTrack's loop over the options, each of Name, Artist,      *)
(* Album and CoverImageURL holds the last non-empty value the options give *)
(* for it, or the extracted value when they give none, and AudioFileURL,   *)
(* Emotion and ID are the extracted ones; one more OverrideTrackMetadata(o)*)
(* sets exactly the four fields that are non-empty in o, changes nothing   *)
(* when o is nil, and applied twice gives what it gives applied once.      *)

Overridable == {"Name", "Artist", "Album", "CoverImageURL"}

\* the last non-empty value the options os give for field f, d without one
LastNonEmpty(os, f, d) ==
    LET I == {i \in DOMAIN os : os[i] # Nil /\ os[i][f] # <<>>}
    IN  IF I = {} THEN d ELSE os[CHOOSE i \in I : \A j \in I : j <= i][f]

C18_OverrideSetsNonEmptyFieldsOnly ==
    \A p \in {"c1"} :
        pc[p] = "exists" =>
            LET t0 == TrackFromAudioFile(fs, idata, path[p]).track
                t == track[p]
            IN  /\ \A f \in Overridable : t[f] = LastNonEmpty(opts[p], f, t0[f])
                /\ t.AudioFileURL = t0.AudioFileURL
                /\ t.Emotion = t0.Emotion
                /\ t.ID = t0.ID
                /\ \A o \in Overrides :
                       LET u == OverrideTrackMetadata(o, t)
                       IN  /\ o = Nil => u = t
                           /\ o # Nil =>
                                 \A f \in Overridable :
                                     u[f] = IF o[f] # <<>> THEN o[f] ELSE t[f]
                           /\ u.AudioFileURL = t.AudioFileURL
                           /\ u.Emotion = t.Emotion
                           /\ u.ID = t.ID
                           /\ OverrideTrackMetadata(o, u) = u

\* two overrides with different names and a blank artist in the second: the
\* second name and the first artist are kept
C18_Witness ==
    /\ pc["c1"] = "exists"
    /\ Len(opts["c1"]) = 2
    /\ opts["c1"][1] # Nil /\ opts["c1"][2] # Nil
    /\ opts["c1"][1].Name = <<"x">> /\ opts["c1"][2].Name = <<"y">>
    /\ opts["c1"][1].Artist = <<"y">> /\ opts["c1"][2].Artist = <<>>
    /\ track["c1"].Name = <<"y">> /\ track["c1"].Artist = <<"y">>

(* C19. Whenever the service answered a call with a status other than 200, *)
(* the call returns an error carrying a status and a body and no Emotion,  *)
(* and no call sends a second request.                                     *)

C19_NonOKResponseIsError ==
    /\ analysis.requests <= 1
    /\ analysis.pc = "returned" =>
          ((\E st \in analysis.seen : st # StatusOK) =>
               /\ analysis.ret.err.kind = "status"
               /\ analysis.ret.emotion = NoEmotion)

(* C19, amended. When the response handed to the client, the one left after *)
(* the transport has followed the redirects, has a status other than 200,  *)
(* the call returns an error carrying that status and the bytes read of    *)
(* that body, and the zero Emotion; a call sends no request that is not    *)
(* the first or the following of a redirect, and ten at most.              *)

C19_FinalNonOKResponseIsError ==
    /\ analysis.requests <= analysis.redirects + 1
    /\ analysis.requests <= RedirectLimit
    /\ (analysis.pc = "returned" /\ analysis.resp # NoResponse
            /\ analysis.resp.status # StatusOK) =>
           /\ analysis.ret.err.kind = "status"
           /\ analysis.ret.err.status = analysis.resp.status
           /\ analysis.ret.err.body =
                  (IF analysis.resp.readable THEN analysis.resp.body ELSE NotJSON)
           /\ analysis.ret.emotion = NoEmotion

\* AnalyzeFile answered 422 with a body that holds both fields
C19_Witness ==
    /\ analysis.pc = "returned"
    /\ analysis.fn = "AnalyzeFile"
    /\ analysis.resp # NoResponse
    /\ analysis.resp.status = 422
    /\ analysis.resp.readable /\ analysis.resp.body.json
    /\ analysis.resp.body.has = Fields /\ analysis.resp.body.valence = 4
    /\ analysis.ret.err.kind = "status"

(* C20. A call answered 200 with a JSON object that lacks valence or       *)
(* arousal returns a parse error.                                          *)

C20_MissingFieldIsParseError ==
    (/\ analysis.pc = "returned"
     /\ analysis.resp # NoResponse
     /\ analysis.resp.status = StatusOK
     /\ analysis.resp.readable
     /\ analysis.resp.body.json
     /\ analysis.resp.body.has # Fields) =>
        analysis.ret.err.kind = "parse"

----------------------------------------------------------------------------
(* C21. audioUrl fails for every path that is not inside the store's root; *)
(* for a path inside the root, and a base URL that parses, it returns the  *)
(* base URL joined with the static path and the path relative to the root. *)
C21_OutsideRootFails ==
    derived.called =>
        IF HasPrefix(derived.path, FileDir \o <<"/">>)
        THEN UrlParses(cfg.BaseUrl) =>
                /\ ~derived.err
                /\ derived.url = cfg.BaseUrl \o audioStaticBasePath \o <<"/">>
                                   \o SubSeq(derived.path, Len(FileDir) + 2,
                                             Len(derived.path))
        ELSE derived.err

----------------------------------------------------------------------------
(* C22. Every Track that an ingestion has persisted in the catalog has a   *)
(* non-empty name, after extraction with its filename fallback and after   *)
(* the options were applied.                                               *)
C22_PersistedNameNonEmpty == \A r \in catalog : r.Name # <<>>

----------------------------------------------------------------------------
\* the request supplies neither a File nor an AudioFileURL, or supplies both
NoSingleSource(r) ==
    \/ r.File = Nil /\ r.Track.AudioFileURL = <<>>
    \/ r.File # Nil /\ r.Track.AudioFileURL # <<>>

(* C23. A PostNewTrack request that supplies neither File nor AudioFileURL, *)
(* or both, is answered 400 in the step that binds it, and that step       *)
(* writes no file and changes no catalog record; nothing of an ingestion   *)
(* is recorded for it. A request is answered 200 only when AddTrack        *)
(* returned a Track and no error.                                          *)
C23_BadSourceRejectedUntouched ==
    /\ [][\A h \in Handlers :
            (pc[h] = "idle" /\ pc'[h] # "idle" /\ NoSingleSource(req'[h])) =>
                /\ pc'[h] = "responded"
                /\ resp'[h] = 400
                /\ fs' = fs /\ idata' = idata
                /\ catalog' = catalog /\ nextID' = nextID]_vars
    /\ [](\A h \in Handlers :
            /\ (pc[h] = "responded" /\ NoSingleSource(req[h])) =>
                    (resp[h] = 400 /\ hist[h] = <<>> /\ path[h] = <<>> /\ placed[h] = <<>>)
            /\ resp[h] = 200 =>
                    (ret[h].err = "" /\ ret[h].track # Nil /\ ret[h].track \in catalog))

\* a request with both a File and an AudioFileURL has been answered 400
C23_Witness ==
    \E h \in Handlers :
        /\ pc[h] = "responded"
        /\ req[h].File # Nil /\ req[h].Track.AudioFileURL # <<>>
        /\ resp[h] = 400

----------------------------------------------------------------------------
(* C24. The upload endpoint answers a duplicate with the status it gives a *)
(* validation error (400), and placement, analysis and persistence errors  *)
(* with 422; a duplicate is never answered with the status of those.       *)
C24_DuplicateAnsweredAsClientError ==
    \A h \in Handlers :
        pc[h] = "responded" =>
            /\ ret[h].err = "duplicate" => resp[h] = 400
            /\ ret[h].err \in {"placement", "analysis", "persist"} => resp[h] = 422

----------------------------------------------------------------------------
\* the emotion scores of the catalog are exactly es, one track for each
ScoresAre(es) ==
    /\ {<<t.Emotion.Valence, t.Emotion.Arousal>> : t \in catalog} = es
    /\ Cardinality(catalog) = Cardinality(es)

(* C25. A query answered 200 returns tracks of the catalog, each with a    *)
(* valence and an arousal less than 0.3 away from the requested point, in  *)
(* order of non-decreasing distance to it, no track twice and at most      *)
(* Limit of them; with tracks at (0.5, 0.5), (0.9, 0.9) and (0.1, 0.1), a  *)
(* request for (0.5, 0.5) with Limit 3 returns the first track alone.      *)
C25_QueryWindowOrderLimit ==
    query.resp = 200 =>
        LET ts == query.tracks
            v == query.req.Valence
            a == query.req.Arousal
            d(t) == (t.Emotion.Valence - v) * (t.Emotion.Valence - v)
                    + (t.Emotion.Arousal - a) * (t.Emotion.Arousal - a)
        IN  /\ \A i \in 1..Len(ts) :
                  /\ ts[i] \in catalog
                  /\ ts[i].Emotion.Valence - v < 3 /\ v - ts[i].Emotion.Valence < 3
                  /\ ts[i].Emotion.Arousal - a < 3 /\ a - ts[i].Emotion.Arousal < 3
            /\ \A i, j \in 1..Len(ts) : i < j => (ts[i] # ts[j] /\ d(ts[i]) <= d(ts[j]))
            /\ Len(ts) <= query.req.Limit
            /\ (ScoresAre({<<5, 5>>, <<9, 9>>, <<1, 1>>}) /\ v = 5 /\ a = 5
                    /\ query.req.Limit = 3) =>
                  (Len(ts) = 1 /\ ts[1].Emotion = [Valence |-> 5, Arousal |-> 5])

\* the example of the claim has been answered
C25_Witness ==
    /\ query.resp = 200
    /\ ScoresAre({<<5, 5>>, <<9, 9>>, <<1, 1>>})
    /\ query.sent.Valence = 5 /\ query.sent.Arousal = 5 /\ query.sent.Limit = 3
    /\ Len(query.tracks) = 1

----------------------------------------------------------------------------
(* C26. A request that parses and that lacks Valence, lacks Arousal, has   *)
(* one of them outside [0, 1] or has a Limit outside [1, 100] is answered  *)
(* 422 and no query is run for it; a query is run only for a request with  *)
(* both values present and in range.                                       *)
C26_OnlyValidatedRequestsQueried ==
    (query.pc = "answered" /\ ~query.sent.malformed) =>
        LET r == query.sent
            valid == /\ r.hasValence /\ r.Valence >= 0 /\ r.Valence <= 10
                     /\ r.hasArousal /\ r.Arousal >= 0 /\ r.Arousal <= 10
                     /\ r.hasLimit => (r.Limit >= 1 /\ r.Limit <= 100)
        IN  /\ ~valid => (query.resp = 422 /\ ~query.ran)
            /\ query.ran => (valid /\ query.req.Limit = IF r.hasLimit THEN r.Limit ELSE 3)

----------------------------------------------------------------------------
(* C27. When the removal of the original fails in the housekeeping, after  *)
(* the Track was persisted, AddTrack returns that Track and no error, and  *)
(* the placed file, the catalog record and the original are all there.     *)
C27_FailedRemovalNotEscalated ==
    \A p \in Procs :
        (pc[p] = "returned" /\ "remove" \in fault[p]) =>
            /\ ret[p].err = ""
            /\ ret[p].track # Nil
            /\ ret[p].track \in catalog
            /\ Exists(fs, path[p])
            /\ Exists(fs, oldpath[p])

\* an ingestion of a file of the root has returned after its removal failed
C27_Witness ==
    \E p \in Procs :
        /\ pc[p] = "returned"
        /\ "remove" \in fault[p]
        /\ HasPrefix(oldpath[p], FileDir)
        /\ ret[p].track \in catalog

----------------------------------------------------------------------------
(* C28. Whenever the bulk import of startup is about to call the analysis  *)
(* service with the URL of a file, the HTTP server is listening, the       *)
(* catalog database is connected and the static audio route of the store   *)
(* is registered.                                                          *)
C28_ServableBeforeAnalysis ==
    (boot.pc = "load" /\ pc["main"] = "analyze") =>
        /\ boot.server = "listening"
        /\ boot.db
        /\ audioStaticBasePath \in boot.routes

----------------------------------------------------------------------------
(* C29. On a store whose analysis is disabled, whose tracks were therefore *)
(* all ingested without analysis, the emotion-distance query returns no    *)
(* track, whatever point is requested with both of its coordinates.        *)
C29_UnscoredNeverReturned ==
    (/\ ~cfg.EnableEmomusic
     /\ query.resp = 200
     /\ query.sent.hasValence /\ query.sent.hasArousal) => query.tracks = <<>>

----------------------------------------------------------------------------
\* UploadTrack has answered 422 after its record was created
FailedAfterCreate(h) ==
    /\ pc[h] = "responded"
    /\ resp[h] = 422
    /\ At(hist[h], "create") # {}

\* the handler took step a and, later, step b
Then(h, a, b) == \E i \in At(hist[h], a), j \in At(hist[h], b) : i < j

\* the failure was that of analyzeAndUpdateEmotion
EmotionFailure(h) == ret[h].err \in {"analysis", "update"}

-----------------------------------------------------------------------------
(* Ingestions that overlap at one canonical destination.                   *)

\* how many ingestions of an overlapping run are started
MaxRacing == 3

\* a file outside the root and an upload with the same tags: their tracks
\* get one canonical destination
RacingFile == File(<<"n">>, <<"y">>, <<"z">>, 1)
RacingUpload == [Filename |-> <<"u">>, data |-> File(<<"n">>, <<"y">>, <<"z">>, 8)]
RacingRequests == {[Track |-> ZeroTrack, File |-> RacingUpload]}

\* a store with an empty root, analysis enabled and a base URL that parses
InitRacing ==
    /\ cfg = [EnableEmomusic |-> TRUE, BaseUrl |-> GoodBaseUrl, FileDir |-> FileDir]
    /\ fs = (Join(OutsideDir, <<"a">> \o Mp3) :> 1)
    /\ idata = <<RacingFile>>
    /\ InitIdle

\* uploads and direct calls of AddTrack that overlap
NextRacing ==
    \/ \E h \in {"h1"} :
        \/ calls < MaxRacing /\ Bind(h, RacingRequests)
        \/ SaveFile(h)
        \/ Respond(h)
        \/ Done(h)
        \/ AddTrackStep(h)
    \/ \E p \in {"c1"} :
        \/ calls < MaxRacing /\ Call(p)
        \/ AddTrackStep(p)
        \/ Return(p)

SpecRacing == InitRacing /\ [][NextRacing]_vars

(* C31. A rollback of AddTrack removes no directory entry other than the   *)
(* one its own os.Link created: the file at the path it removes, if any,   *)
(* is the inode this invocation linked there, also when other invocations  *)
(* have the same canonical destination.                                    *)

C31_RollbackRemovesOwnFile ==
    [][\A p \in Procs :
        (pc[p] = "rollback" /\ pc'[p] = "returned" /\ Exists(fs, path[p]))
        => fs[path[p]] = linked[p]]_vars


-----------------------------------------------------------------------------
(* Uploads that overlap and carry one filename.                            *)

\* two uploads named alike whose bytes and tags differ
SameNameRequests ==
    {[Track |-> ZeroTrack, File |-> RacingUpload],
     [Track |-> ZeroTrack,
      File |-> [Filename |-> <<"u">>, data |-> File(<<"m">>, <<"y">>, <<"z">>, 9)]]}

\* an empty store with analysis enabled and a base URL that parses
InitSameName ==
    /\ cfg = [EnableEmomusic |-> TRUE, BaseUrl |-> GoodBaseUrl, FileDir |-> FileDir]
    /\ fs = <<>>
    /\ idata = <<>>
    /\ InitIdle

\* the HTTP server's goroutines: uploads of one filename that overlap
NextSameName ==
    \E h \in Handlers :
        \/ calls < MaxOverlapping /\ Bind(h, SameNameRequests)
        \/ SaveFile(h)
        \/ Respond(h)
        \/ Done(h)
        \/ AddTrackStep(h)

SpecSameName == InitSameName /\ [][NextSameName]_vars

\* the file q placed is still at its destination
Holds(q) ==
    /\ placed[q] # <<>>
    /\ Exists(fs, placed[q])
    /\ fs[placed[q]] = linked[q]

(* C32. Overlapping PostNewTrack requests that carry one upload filename   *)
(* do not interfere: a request answered with 200 has created a Track whose *)
(* file held the bytes of that request's own upload, and the write of one  *)
(* request to the scratch directory leaves the content of the file placed  *)
(* for the other request as it was.                                        *)

C32_SameNameUploadsDoNotInterfere ==
    /\ [](\A h \in Handlers :
            (pc[h] = "responded" /\ resp[h] = 200)
            => origin[ret[h].track.ID] = req[h].File.data)
    /\ [][\A h, q \in Handlers :
            (h # q /\ pc[h] = "save" /\ pc'[h] # "save" /\ Holds(q))
            => idata'[linked[q]] = idata[linked[q]]]_vars


-----------------------------------------------------------------------------
(* The duplicate check and a count query that fails.                       *)

\* the catalog holds a Track with the (name, artist) of the track of p
Present(p) ==
    \E r \in catalog : r.Name = track[p].Name /\ r.Artist = track[p].Artist

(* C33. The duplicate check of AddTrack ends the ingestion with the        *)
(* duplicate error exactly when its count query succeeded and the catalog  *)
(* holds a Track with the (name, artist) of the track; in every other      *)
(* case, a failed count query included, AddTrack goes on to the placement. *)

C33_FailedCountReportsAbsent ==
    [][\A p \in Procs :
        (pc[p] = "exists" /\ pc'[p] # "exists")
        => IF "count" \notin fault'[p] /\ Present(p)
           THEN pc'[p] = "returned" /\ ret'[p].err = "duplicate"
           ELSE pc'[p] = "stat" /\ ret'[p] = ret[p]]_vars

\* an ingestion whose count query failed while the catalog held its pair,
\* and which went on to the placement and created its Track
C33_Witness ==
    \E p \in Procs :
        /\ "count" \in fault[p]
        /\ \E r \in snap[p].catalog :
            r.Name = track[p].Name /\ r.Artist = track[p].Artist
        /\ At(hist[p], "link") # {}
        /\ At(hist[p], "create") # {}
        /\ pc[p] = "returned"
        /\ ret[p].err = ""

====
